---- MODULE Spec2Model ----
(***************************************************************************)
(* FERS_core: the structural entity graph, its identity counters, its      *)
(* catalog serialization and its transformation operations.                *)
(*                                                                         *)
(* Objects live in per-class heaps (sequences); an object's identity is    *)
(* its index in the heap of its class, its `id` is a field.  A reference   *)
(* is a heap index, or None.                                               *)
(***************************************************************************)
EXTENDS Integers, Sequences, FiniteSets, TLC

\* Python's None (an absent id, an absent reference).
None == -1

\* ---------------------------------------------------------------- bounds
MaxNodes == 3
MaxMembers == 2
MaxSections == 2
MaxMemberSets == 2
MaxCount == 3
MaxObjects == 3
MaxRuns == 2

\* ------------------------------------------------------- small utilities
RECURSIVE Flatten(_)
Flatten(ss) == IF ss = <<>> THEN <<>> ELSE Head(ss) \o Flatten(Tail(ss))

RECURSIVE Pick(_, _, _)
\* the subsequence of seq at the indices i >= from where keep[i]
Pick(seq, keep, from) ==
    IF from > Len(seq) THEN <<>>
    ELSE (IF keep[from] THEN <<seq[from]>> ELSE <<>>) \o Pick(seq, keep, from + 1)

Range(seq) == {seq[i] : i \in DOMAIN seq}

\* first index of seq holding x (x occurs in seq)
IndexOf(seq, x) == CHOOSE i \in DOMAIN seq : seq[i] = x /\ \A j \in 1..(i - 1) : seq[j] # x

\* `value or default` for an optional integer: None and 0 are both falsy
PyOr(value, default) == IF value = None \/ value = 0 THEN default ELSE value

\* --------------------------------------------------------------- state
VARIABLES
    counter,      \* the class-level id counters, one per entity kind
    nodes,        \* heap of Node objects
    supports,     \* heap of NodalSupport objects
    materials,    \* heap of Material objects
    shapes,       \* heap of ShapePath objects
    sections,     \* heap of Section objects
    hinges,       \* heap of MemberHinge objects
    members,      \* heap of Member objects
    all_members,  \* Member._all_members, the process-wide registry
    membersets,   \* heap of MemberSet objects
    models,       \* heap of FERS aggregates
    loadcases,    \* heap of LoadCase objects
    nodalloads,   \* heap of NodalLoad objects
    nodalmoments, \* heap of NodalMoment objects
    distloads,    \* heap of DistributedLoad objects
    combos,       \* heap of LoadCombination objects
    impcases,     \* heap of ImperfectionCase objects
    ret           \* what the last operation was given and what it returned or raised

vars == <<counter, nodes, supports, materials, shapes, sections, hinges, members,
          all_members, membersets, models, loadcases, nodalloads, nodalmoments,
          distloads, combos, impcases, ret>>

catalogVars == <<supports, materials, shapes, sections, hinges>>
loadVars == <<loadcases, nodalloads, nodalmoments, distloads, combos, impcases>>

\* The part of the state that graph operations read and write, as one value.
World == [counter |-> counter, nodes |-> nodes, members |-> members,
          all_members |-> all_members, membersets |-> membersets, models |-> models]

InitialCounters ==
    [Node |-> 1, Member |-> 1, MemberSet |-> 1, MemberHinge |-> 1, Section |-> 1,
     Material |-> 1, ShapePath |-> 1, NodalSupport |-> 1, LoadCase |-> 1,
     LoadCombination |-> 1, ImperfectionCase |-> 1, NodalLoad |-> 1,
     NodalMoment |-> 1, DistributedLoad |-> 1]

\* FERS.reset_counters: the twelve reset_counter calls it makes
reset_counters(c) ==
    [c EXCEPT !.ImperfectionCase = 1, !.LoadCase = 1, !.LoadCombination = 1,
              !.Member = 1, !.MemberHinge = 1, !.MemberSet = 1, !.Node = 1,
              !.NodalSupport = 1, !.NodalLoad = 1, !.Section = 1, !.Material = 1,
              !.ShapePath = 1]

\* FERS.__init__ (reset_counters=True): reset, then an empty aggregate
FERS_init(w) ==
    [w EXCEPT !.counter = reset_counters(@),
              !.models = Append(@, [member_sets |-> <<>>, load_cases |-> <<>>,
                                    load_combinations |-> <<>>, results |-> None])]

\* FERS.add_member_set for one member set
add_member_set(w, model, ms) ==
    [w EXCEPT !.models[model].member_sets = Append(@, ms)]

\* ------------------------------------------------------------ Node
\* a constructor that takes the counter's value without moving the counter
Node_init_counter_kept(w, X, Y, Z, id, classification, nodal_support) ==
    [w EXCEPT !.nodes = Append(@, [id |-> PyOr(id, w.counter.Node), X |-> X, Y |-> Y,
                                   Z |-> Z, classification |-> classification,
                                   nodal_support |-> nodal_support])]

\* Node.__init__: returns the world with the new node appended to the heap
Node_init(w, X, Y, Z, id, classification, nodal_support) ==
    [w EXCEPT !.nodes = Append(@, [id |-> PyOr(id, w.counter.Node), X |-> X, Y |-> Y,
                                   Z |-> Z, classification |-> classification,
                                   nodal_support |-> nodal_support]),
              !.counter.Node = IF id = None THEN @ + 1 ELSE @]

\* Node.to_dict
Node_to_dict(w, n) ==
    [id |-> w.nodes[n].id, classification |-> w.nodes[n].classification,
     X |-> w.nodes[n].X, Y |-> w.nodes[n].Y, Z |-> w.nodes[n].Z,
     nodal_support |-> IF w.nodes[n].nodal_support # None
                       THEN supports[w.nodes[n].nodal_support].id ELSE None]

\* an Optional[dict]: None, or the dict d
NoDict == [some |-> FALSE, d |-> <<>>]
Dict(d) == [some |-> TRUE, d |-> d]

\* Node.from_dict(data, nodal_supports_by_id)
Node_from_dict(w, data, nodal_supports_by_id) ==
    Node_init(w, data.X, data.Y, data.Z, data.id, data.classification,
              IF nodal_supports_by_id.some /\ data.nodal_support # None
                 /\ data.nodal_support \in DOMAIN nodal_supports_by_id.d
              THEN nodal_supports_by_id.d[data.nodal_support] ELSE None)

\* ------------------------------------------------------------ Member
\* members.enums.MemberType: the enum members, by name
MemberTypes == {"NORMAL", "RIGID", "TENSION"}

\* MemberType.value
MemberType_value(t) ==
    CASE t = "NORMAL" -> "Normal" [] t = "RIGID" -> "Rigid" [] t = "TENSION" -> "Tension"

\* normalize_member_type: an enum member, its name or its value
normalize_member_type(x) ==
    CASE x \in MemberTypes -> x
      [] x = "Normal" -> "NORMAL"
      [] x = "Rigid" -> "RIGID"
      [] x = "Tension" -> "TENSION"

Abs(x) == IF x < 0 THEN 0 - x ELSE x

\* Member.length for the node pair (s, e); the model keeps members on the
\* X axis of their own frame, where the Euclidean distance is |dx|
Member_length(w, s, e) ==
    LET dx == w.nodes[e].X - w.nodes[s].X
        dy == w.nodes[e].Y - w.nodes[s].Y
        dz == w.nodes[e].Z - w.nodes[s].Z
        d2 == dx * dx + dy * dy + dz * dz
    IN  CHOOSE r \in 0..d2 : r * r <= d2 /\ (r + 1) * (r + 1) > d2

\* a weight method without the section-is-None branch: length times unit load
Member_weight_no_section_branch(w, s, e, section) ==
    IF section = None THEN Member_length(w, s, e)
    ELSE materials[sections[section].material].density * sections[section].area
             * Member_length(w, s, e)

\* Member.weight (the method, as called by __init__)
Member_weight(w, s, e, section) ==
    IF section = None THEN 0
    ELSE LET length == Member_length(w, s, e)
             density == materials[sections[section].material].density
             area == sections[section].area
         IN  IF length # 0 /\ density # 0 /\ area # 0 THEN density * area * length ELSE 0

\* Member.__init__: [w, err]; on ValueError the counter has already advanced
\* and nothing is appended
Member_init(w, start_node, end_node, section, id, start_hinge, end_hinge, classification, rotation_angle, weight, chi, reference_member, reference_node, member_type) ==
    LET w1 == [w EXCEPT !.counter.Member = IF id = None THEN @ + 1 ELSE @]
        mt == normalize_member_type(member_type)
        m  == [id |-> PyOr(id, w.counter.Member), start_node |-> start_node,
               end_node |-> end_node, section |-> section,
               rotation_angle |-> rotation_angle, start_hinge |-> start_hinge,
               end_hinge |-> end_hinge, classification |-> classification, chi |-> chi,
               reference_member |-> reference_member, reference_node |-> reference_node,
               weight |-> IF weight # None THEN weight
                          ELSE Member_weight(w, start_node, end_node, section),
               member_type |-> mt]
    IN  IF section = None /\ mt # "RIGID"
        THEN [w |-> w1, err |-> "ValueError"]
        ELSE [w |-> [w1 EXCEPT !.members = Append(@, m),
                               !.all_members = Append(@, Len(w.members) + 1)],
              err |-> ""]

\* ------------------------------------------------------------ MemberSet
\* MemberSet.__init__
MemberSet_init(w, mems, classification, l_y, l_z, id) ==
    [w EXCEPT !.membersets = Append(@, [memberset_id |-> PyOr(id, w.counter.MemberSet),
                                        members |-> mems,
                                        classification |-> classification,
                                        l_y |-> l_y, l_z |-> l_z]),
              !.counter.MemberSet = IF id = None THEN @ + 1 ELSE @]

\* ------------------------------------------------------------ traversal
\* the members of a model, member set by member set, with repetitions
ModelMembers(w, model) ==
    Flatten([k \in DOMAIN w.models[model].member_sets |->
                w.membersets[w.models[model].member_sets[k]].members])

\* keep the first element for every key: the `if key not in seen` loops
FirstByKey(seq, keys) ==
    Pick(seq, [i \in DOMAIN seq |-> \A j \in 1..(i - 1) : keys[j] # keys[i]], 1)

\* dict semantics of `by_id[key] = value` in a loop, then list(by_id.values()):
\* keys in first-insertion order, each with the last value stored under it
LastByKey(seq, keys) ==
    LET firsts == Pick([i \in DOMAIN seq |-> i],
                       [i \in DOMAIN seq |-> \A j \in 1..(i - 1) : keys[j] # keys[i]], 1)
        last(i) == CHOOSE j \in DOMAIN seq :
                       /\ keys[j] = keys[i]
                       /\ \A k \in DOMAIN seq : keys[k] = keys[i] => k <= j
    IN  [n \in DOMAIN firsts |-> seq[last(firsts[n])]]

\* FERS.get_all_nodes: start and end node of every member, first object per id
get_all_nodes(w, model) ==
    LET ms   == ModelMembers(w, model)
        ends == Flatten([k \in DOMAIN ms |->
                            <<w.members[ms[k]].start_node, w.members[ms[k]].end_node>>])
    IN  FirstByKey(ends, [i \in DOMAIN ends |-> w.nodes[ends[i]].id])

\* FERS.get_all_members: first object per member id
get_all_members(w, model) ==
    LET ms == ModelMembers(w, model)
    IN  FirstByKey(ms, [i \in DOMAIN ms |-> w.members[ms[i]].id])

\* MemberSet.get_unique_sections: the distinct section objects of the set's members
MemberSet_get_unique_sections(w, ms) ==
    LET mem  == w.membersets[ms].members
        secs == Pick([i \in DOMAIN mem |-> w.members[mem[i]].section],
                     [i \in DOMAIN mem |-> w.members[mem[i]].section # None], 1)
    IN  FirstByKey(secs, secs)

\* MemberSet.get_unique_materials: the distinct material objects of the set's sections
MemberSet_get_unique_materials(w, ms) ==
    LET secs == MemberSet_get_unique_sections(w, ms)
        mats == [i \in DOMAIN secs |-> sections[secs[i]].material]
    IN  FirstByKey(mats, mats)

\* MemberSet.get_unique_memberhinges: the distinct hinge objects of the set's members
MemberSet_get_unique_memberhinges(w, ms) ==
    LET mem == w.membersets[ms].members
        hs  == Flatten([i \in DOMAIN mem |->
                           <<w.members[mem[i]].start_hinge, w.members[mem[i]].end_hinge>>])
        got == Pick(hs, [i \in DOMAIN hs |-> hs[i] # None], 1)
    IN  FirstByKey(got, got)

\* the section of every member that has one, shared sections repeated
sections_of_every_member(w, model) ==
    LET ms == ModelMembers(w, model)
    IN  Pick([i \in DOMAIN ms |-> w.members[ms[i]].section],
             [i \in DOMAIN ms |-> w.members[ms[i]].section # None], 1)

\* FERS.get_unique_sections_from_all_member_sets
get_unique_sections_from_all_member_sets(w, model) ==
    LET all == Flatten([k \in DOMAIN w.models[model].member_sets |->
                   MemberSet_get_unique_sections(w, w.models[model].member_sets[k])])
    IN  LastByKey(all, [i \in DOMAIN all |-> sections[all[i]].id])

\* FERS.get_unique_materials_from_all_member_sets
get_unique_materials_from_all_member_sets(w, model) ==
    LET all == Flatten([k \in DOMAIN w.models[model].member_sets |->
                   MemberSet_get_unique_materials(w, w.models[model].member_sets[k])])
    IN  LastByKey(all, [i \in DOMAIN all |-> materials[all[i]].id])

\* FERS.get_unique_member_hinges_from_all_member_sets
get_unique_member_hinges_from_all_member_sets(w, model) ==
    LET all == Flatten([k \in DOMAIN w.models[model].member_sets |->
                   MemberSet_get_unique_memberhinges(w, w.models[model].member_sets[k])])
    IN  LastByKey(all, [i \in DOMAIN all |-> hinges[all[i]].id])

\* FERS.get_unique_shape_paths_from_all_member_sets
get_unique_shape_paths_from_all_member_sets(w, model) ==
    LET ms   == ModelMembers(w, model)
        keep == [i \in DOMAIN ms |->
                    /\ w.members[ms[i]].section # None
                    /\ sections[w.members[ms[i]].section].shape_path # None]
        sel  == Pick(ms, keep, 1)
        sps  == [i \in DOMAIN sel |-> sections[w.members[sel[i]].section].shape_path]
    IN  FirstByKey(sps, [i \in DOMAIN sps |-> shapes[sps[i]].id])

\* FERS.get_unique_nodal_support_from_all_member_sets
get_unique_nodal_support_from_all_member_sets(w, model) ==
    LET ms   == ModelMembers(w, model)
        ends == Flatten([k \in DOMAIN ms |->
                            <<w.members[ms[k]].start_node, w.members[ms[k]].end_node>>])
        sel  == Pick(ends, [i \in DOMAIN ends |-> w.nodes[ends[i]].nodal_support # None], 1)
        sups == [i \in DOMAIN sel |-> w.nodes[sel[i]].nodal_support]
    IN  FirstByKey(sups, [i \in DOMAIN sups |-> supports[sups[i]].id])

\* ------------------------------------------------------------ combine
\* a combination that keeps only the members of the first argument
combine_first_only(w, member_sets) ==
    MemberSet_init(w, w.membersets[member_sets[1]].members, "", None, None, None)

\* FERS.combine_member_sets(*member_sets): extend a list with every argument's
\* members, then MemberSet(members=combined_members)
combine_member_sets(w, member_sets) ==
    MemberSet_init(w, Flatten([k \in DOMAIN member_sets |->
                                  w.membersets[member_sets[k]].members]),
                   "", None, None, None)

\* ------------------------------------------------------------ translate_model
RECURSIVE translate_nodes(_, _, _, _)
\* FERS.translate_model, first loop: one new Node per node of get_all_nodes,
\* recorded under the original node's id.  [w, map]
translate_nodes(w, todo, v, map) ==
    IF todo = <<>> THEN [w |-> w, map |-> map]
    ELSE translate_nodes(
             Node_init(w, w.nodes[Head(todo)].X + v[1], w.nodes[Head(todo)].Y + v[2],
                       w.nodes[Head(todo)].Z + v[3], None, "", None),
             Tail(todo), v, (w.nodes[Head(todo)].id :> (Len(w.nodes) + 1)) @@ map)

\* the Member(...) call of translate_model for the source member m
translate_member(w, m, map) ==
    Member_init(w, map[w.nodes[m.start_node].id], map[w.nodes[m.end_node].id],
                m.section, None, m.start_hinge, m.end_hinge, m.classification,
                m.rotation_angle, None, m.chi, m.reference_member, m.reference_node,
                m.member_type)

RECURSIVE translate_members(_, _, _, _)
RECURSIVE translate_members_made(_, _, _, _)
\* FERS.translate_model, inner loop over one member set.  [w, new, err]
translate_members(w, todo, map, new) ==
    IF todo = <<>> THEN [w |-> w, new |-> new, err |-> ""]
    ELSE IF w.nodes[w.members[Head(todo)].start_node].id \notin DOMAIN map
            \/ w.nodes[w.members[Head(todo)].end_node].id \notin DOMAIN map
         THEN [w |-> w, new |-> new, err |-> "KeyError"]
         ELSE translate_members_made(translate_member(w, w.members[Head(todo)], map),
                                     todo, map, new)

\* ... after the Member(...) call returned or raised (r)
translate_members_made(r, todo, map, new) ==
    IF r.err # "" THEN [w |-> r.w, new |-> new, err |-> r.err]
    ELSE translate_members(r.w, Tail(todo), map, Append(new, Len(r.w.members)))

RECURSIVE translate_sets(_, _, _, _)
RECURSIVE translate_sets_made(_, _, _, _)
\* FERS.translate_model, outer loop over the member sets.  [w, err]
translate_sets(w, todo, map, new_model) ==
    IF todo = <<>> THEN [w |-> w, err |-> ""]
    ELSE translate_sets_made(translate_members(w, w.membersets[Head(todo)].members,
                                               map, <<>>),
                             todo, map, new_model)

\* ... after the members of the set Head(todo) were rebuilt (r): the new
\* MemberSet, with the source set's classification and id, joins the new model
translate_sets_made(r, todo, map, new_model) ==
    IF r.err # "" THEN [w |-> r.w, err |-> r.err]
    ELSE translate_sets(
             add_member_set(
                 MemberSet_init(r.w, r.new, r.w.membersets[Head(todo)].classification,
                                None, None, r.w.membersets[Head(todo)].memberset_id),
                 new_model, Len(r.w.membersets) + 1),
             Tail(todo), map, new_model)

\* translate_model's result once both loops ran: [w, err, model]
translate_result(r, new_model) ==
    [w |-> r.w, err |-> r.err, model |-> IF r.err = "" THEN new_model ELSE None]

\* translate_model after its first loop (r1)
translate_second_loop(r1, sets, new_model) ==
    translate_result(translate_sets(r1.w, sets, r1.map, new_model), new_model)

\* FERS.translate_model: [w, err, model]
translate_model(w, model, v) ==
    translate_second_loop(
        translate_nodes(FERS_init(w), get_all_nodes(w, model), v, <<>>),
        w.models[model].member_sets, Len(w.models) + 1)

\* ------------------------------------------------ create_combined_model_pattern
RECURSIVE add_member_sets(_, _, _)
\* the loop `for original_member_set in ...: combined_model.add_member_set(...)`
add_member_sets(w, model, todo) ==
    IF todo = <<>> THEN w
    ELSE add_member_sets(add_member_set(w, model, Head(todo)), model, Tail(todo))

\* the translated coordinates of node n at replication index i
pattern_coords(n, i, sp) == <<n.X + sp[1] * i, n.Y + sp[2] * i, n.Z + sp[3] * i>>

RECURSIVE pattern_nodes(_, _, _, _, _)
\* first pass, the nodes of one replication index i: a new Node unless the
\* translated coordinates are a key of node_mapping (whose keys are (id, i) pairs)
pattern_nodes(w, todo, i, sp, node_mapping) ==
    IF todo = <<>> THEN [w |-> w, map |-> node_mapping]
    ELSE IF pattern_coords(w.nodes[Head(todo)], i, sp) \notin DOMAIN node_mapping
         THEN pattern_nodes(
                  Node_init(w, pattern_coords(w.nodes[Head(todo)], i, sp)[1],
                            pattern_coords(w.nodes[Head(todo)], i, sp)[2],
                            pattern_coords(w.nodes[Head(todo)], i, sp)[3], None,
                            w.nodes[Head(todo)].classification,
                            w.nodes[Head(todo)].nodal_support),
                  Tail(todo), i, sp,
                  (<<w.nodes[Head(todo)].id, i>> :> (Len(w.nodes) + 1)) @@ node_mapping)
         ELSE pattern_nodes(w, Tail(todo), i, sp, node_mapping)

RECURSIVE pattern_node_pass(_, _, _, _, _)
\* first pass: for i in range(1, count); r carries [w, map]
pattern_node_pass(r, orig_nodes, i, count, sp) ==
    IF i >= count THEN r
    ELSE pattern_node_pass(pattern_nodes(r.w, orig_nodes, i, sp, r.map),
                           orig_nodes, i + 1, count, sp)

\* member_mapping[member].append(new_member), creating the list on first use;
\* member_mapping is a sequence of [key, list] in insertion order
mapping_append(member_mapping, member, new_member) ==
    IF \E k \in DOMAIN member_mapping : member_mapping[k].key = member
    THEN [k \in DOMAIN member_mapping |->
            IF member_mapping[k].key = member
            THEN [member_mapping[k] EXCEPT !.list = Append(@, new_member)]
            ELSE member_mapping[k]]
    ELSE Append(member_mapping, [key |-> member, list |-> <<new_member>>])

\* the node_mapping lookups of the second pass for member m at index i raise KeyError
pattern_lookup_fails(w, m, i, node_mapping) ==
    \/ <<w.nodes[m.start_node].id, i>> \notin DOMAIN node_mapping
    \/ <<w.nodes[m.end_node].id, i>> \notin DOMAIN node_mapping
    \/ /\ m.reference_node # None
       /\ <<w.nodes[m.reference_node].id, i>> \notin DOMAIN node_mapping

\* the Member(...) call of the second pass: no member_type is passed
pattern_member(w, m, i, node_mapping) ==
    Member_init(w, node_mapping[<<w.nodes[m.start_node].id, i>>],
                node_mapping[<<w.nodes[m.end_node].id, i>>],
                m.section, None, m.start_hinge, m.end_hinge, m.classification,
                m.rotation_angle, None, m.chi, m.reference_member,
                IF m.reference_node # None
                THEN node_mapping[<<w.nodes[m.reference_node].id, i>>] ELSE None,
                "NORMAL")

RECURSIVE pattern_members(_, _, _, _, _, _)
RECURSIVE pattern_members_made(_, _, _, _, _, _)
\* second pass, the members of one member set at index i.  [w, new, mm, err]
pattern_members(w, todo, i, node_mapping, member_mapping, new) ==
    IF todo = <<>> THEN [w |-> w, new |-> new, mm |-> member_mapping, err |-> ""]
    ELSE IF pattern_lookup_fails(w, w.members[Head(todo)], i, node_mapping)
         THEN [w |-> w, new |-> new, mm |-> member_mapping, err |-> "KeyError"]
         ELSE pattern_members_made(
                  pattern_member(w, w.members[Head(todo)], i, node_mapping),
                  todo, i, node_mapping, member_mapping, new)

\* ... after the Member(...) call returned or raised (r)
pattern_members_made(r, todo, i, node_mapping, member_mapping, new) ==
    IF r.err # "" THEN [w |-> r.w, new |-> new, mm |-> member_mapping, err |-> r.err]
    ELSE pattern_members(r.w, Tail(todo), i, node_mapping,
                         mapping_append(member_mapping, Head(todo), Len(r.w.members)),
                         Append(new, Len(r.w.members)))

RECURSIVE pattern_sets(_, _, _, _, _, _)
RECURSIVE pattern_sets_made(_, _, _, _, _)
\* second pass, the member sets of the original model at index i.  [w, mm, err]
pattern_sets(w, todo, i, node_mapping, member_mapping, combined) ==
    IF todo = <<>> THEN [w |-> w, mm |-> member_mapping, err |-> ""]
    ELSE pattern_sets_made(
             pattern_members(w, w.membersets[Head(todo)].members, i, node_mapping,
                             member_mapping, <<>>),
             todo, i, node_mapping, combined)

\* ... after the members of the set Head(todo) were replicated (r): the new
\* MemberSet joins the combined model
pattern_sets_made(r, todo, i, node_mapping, combined) ==
    IF r.err # "" THEN [w |-> r.w, mm |-> r.mm, err |-> r.err]
    ELSE pattern_sets(
             add_member_set(
                 MemberSet_init(r.w, r.new, r.w.membersets[Head(todo)].classification,
                                r.w.membersets[Head(todo)].l_y,
                                r.w.membersets[Head(todo)].l_z, None),
                 combined, Len(r.w.membersets) + 1),
             Tail(todo), i, node_mapping, r.mm, combined)

RECURSIVE pattern_member_pass(_, _, _, _, _, _)
\* second pass: for i in range(1, count); r carries [w, mm, err]
pattern_member_pass(r, sets, i, count, node_mapping, combined) ==
    IF i >= count \/ r.err # "" THEN r
    ELSE pattern_member_pass(pattern_sets(r.w, sets, i, node_mapping, r.mm, combined),
                             sets, i + 1, count, node_mapping, combined)

\* member_mapping.get(reference_member, [None])[0]
new_reference_member(member_mapping, ref) ==
    IF \E k \in DOMAIN member_mapping : member_mapping[k].key = ref
    THEN (member_mapping[CHOOSE k \in DOMAIN member_mapping :
                             member_mapping[k].key = ref].list)[1]
    ELSE None

\* third pass: every new member with a reference_member gets the mapped one
pattern_rebind(w, member_mapping) ==
    [w EXCEPT !.members =
        [x \in DOMAIN w.members |->
            IF /\ \E k \in DOMAIN member_mapping : x \in Range(member_mapping[k].list)
               /\ w.members[x].reference_member # None
            THEN [w.members[x] EXCEPT !.reference_member =
                     new_reference_member(member_mapping, w.members[x].reference_member)]
            ELSE w.members[x]]]

\* create_combined_model_pattern after its second pass (r): [w, err, model, mm]
pattern_third_pass(r, combined) ==
    IF r.err # "" THEN [w |-> r.w, err |-> r.err, model |-> None, mm |-> r.mm]
    ELSE [w |-> pattern_rebind(r.w, r.mm), err |-> "", model |-> combined, mm |-> r.mm]

\* create_combined_model_pattern after its first pass (r1)
pattern_second_pass(r1, sets, count, combined) ==
    pattern_third_pass(
        pattern_member_pass([w |-> r1.w, mm |-> <<>>, err |-> ""], sets, 1, count,
                            r1.map, combined),
        combined)

\* FERS.create_combined_model_pattern: [w, err, model, mm]
create_combined_model_pattern(w, original_model, count, spacing_vector) ==
    pattern_second_pass(
        pattern_node_pass(
            [w   |-> add_member_sets(FERS_init(w), Len(w.models) + 1,
                                     w.models[original_model].member_sets),
             map |-> <<>>],
            get_all_nodes(w, original_model), 1, count, spacing_vector),
        w.models[original_model].member_sets, count, Len(w.models) + 1)

\* ------------------------------------------------------------ strings
\* A Python str is the sequence of its characters; an Optional[str] is a record.
Digits == <<"0", "1", "2", "3", "4", "5", "6", "7", "8", "9">>
NoStr == [some |-> FALSE, s |-> <<>>]
Str(s) == [some |-> TRUE, s |-> s]

\* str.isdigit
isdigit(s) == s # <<>> /\ \A i \in DOMAIN s : s[i] \in Range(Digits)

RECURSIVE int_of_str(_)
\* int(s) for a string of digits
int_of_str(s) ==
    IF s = <<>> THEN 0
    ELSE int_of_str(SubSeq(s, 1, Len(s) - 1)) * 10 + (IndexOf(Digits, s[Len(s)]) - 1)

RECURSIVE str_of_int(_)
\* str(n) for a natural number
str_of_int(n) ==
    IF n < 10 THEN <<Digits[n + 1]>>
    ELSE str_of_int(n \div 10) \o <<Digits[(n % 10) + 1]>>

\* ------------------------------------------------------------ loads
\* LoadCase.__init__: the new LoadCase object
LoadCase_init(c, name, id) ==
    [id |-> PyOr(id, c.LoadCase),
     name |-> IF name.some THEN name.s
              ELSE <<"L", "o", "a", "d", "c", "a", "s", "e", " ">>
                       \o str_of_int(PyOr(id, c.LoadCase)),
     nodal_loads |-> <<>>, nodal_moments |-> <<>>, distributed_loads |-> <<>>]

\* a registration that runs twice
add_nodal_load_twice(lcs, load_case, nodal_load) ==
    [lcs EXCEPT ![load_case].nodal_loads = Append(Append(@, nodal_load), nodal_load)]

\* LoadCase.add_nodal_load
add_nodal_load(lcs, load_case, nodal_load) ==
    [lcs EXCEPT ![load_case].nodal_loads = Append(@, nodal_load)]

\* LoadCase.add_nodal_moment
add_nodal_moment(lcs, load_case, nodal_load) ==
    [lcs EXCEPT ![load_case].nodal_moments = Append(@, nodal_load)]

\* LoadCase.add_distributed_load
add_distributed_load(lcs, load_case, distributed_load) ==
    [lcs EXCEPT ![load_case].distributed_loads = Append(@, distributed_load)]

\* loads.distributionshape.DistributionShape: the enum members, by name
DistributionShapes == {"UNIFORM", "TRIANGULAR", "INVERSE_TRIANGULAR"}

\* a fraction check that lets start_frac = end_frac through
DistributedLoad_error_equal_allowed(distribution_shape, start_frac, end_frac) ==
    IF ~(0 <= start_frac /\ start_frac <= 10) \/ ~(0 <= end_frac /\ end_frac <= 10)
    THEN "ValueError: range"
    ELSE IF start_frac > end_frac
    THEN "ValueError: order"
    ELSE IF ~distribution_shape.enum /\ distribution_shape.name \notin DistributionShapes
    THEN "ValueError: shape"
    ELSE ""

\* DistributedLoad.__init__, fractions in tenths: which error it raises, "" for none
DistributedLoad_error(distribution_shape, start_frac, end_frac) ==
    IF ~(0 <= start_frac /\ start_frac <= 10) \/ ~(0 <= end_frac /\ end_frac <= 10)
    THEN "ValueError: range"
    ELSE IF start_frac >= end_frac
    THEN "ValueError: order"
    ELSE IF ~distribution_shape.enum /\ distribution_shape.name \notin DistributionShapes
    THEN "ValueError: shape"
    ELSE ""

\* DistributedLoad.__init__ has passed the fraction checks and taken its id
DistributedLoad_took_id(distribution_shape, start_frac, end_frac) ==
    DistributedLoad_error(distribution_shape, start_frac, end_frac)
        \in {"", "ValueError: shape"}

\* ------------------------------------------------------------ LoadCombination
\* a key of load_cases_factors: an int or a str
IntKey(n) == [kind |-> "int", n |-> n, s |-> <<>>]
StrKey(s) == [kind |-> "str", n |-> 0, s |-> s]
\* str(key)
str_of_key(key) == IF key.kind = "int" THEN str_of_int(key.n) ELSE key.s

RECURSIVE index_load_cases(_, _, _)
\* LoadCombination._index_load_cases: [by_id, by_name], later entries replace
\* earlier ones under the same key
index_load_cases(lcs, load_cases, idx) ==
    IF load_cases = <<>> THEN idx
    ELSE index_load_cases(lcs, Tail(load_cases),
             [by_id   |-> (lcs[Head(load_cases)].id :> Head(load_cases)) @@ idx.by_id,
              by_name |-> (lcs[Head(load_cases)].name :> Head(load_cases))
                              @@ idx.by_name])

\* dict.get(key) with None for a missing key
dict_get(d, key) == IF key \in DOMAIN d THEN d[key] ELSE None

\* from_dict, "Try as id": by_id.get for an int key or an all-digit str key
resolve_as_id(idx, key) ==
    IF key.kind = "int" THEN dict_get(idx.by_id, key.n)
    ELSE IF isdigit(key.s) THEN dict_get(idx.by_id, int_of_str(key.s))
    ELSE None

\* a resolution that tries the name before the id
resolve_key_name_first(idx, key) ==
    IF dict_get(idx.by_name, str_of_key(key)) # None
    THEN dict_get(idx.by_name, str_of_key(key))
    ELSE resolve_as_id(idx, key)

\* from_dict, one key: by id, and by name when that gave None
resolve_key(idx, key) ==
    IF resolve_as_id(idx, key) # None THEN resolve_as_id(idx, key)
    ELSE dict_get(idx.by_name, str_of_key(key))

\* load_cases_factors[lc] = factor on a dict kept as a sequence of [lc, factor]
factors_set(factors, lc, factor) ==
    IF \E i \in DOMAIN factors : factors[i].lc = lc
    THEN [i \in DOMAIN factors |->
             IF factors[i].lc = lc THEN [lc |-> lc, factor |-> factor] ELSE factors[i]]
    ELSE Append(factors, [lc |-> lc, factor |-> factor])

RECURSIVE resolve_factors(_, _, _)
\* from_dict, the loop over raw_factors.items(): [err, key, factors]
resolve_factors(idx, raw_factors, factors) ==
    IF raw_factors = <<>> THEN [err |-> "", key |-> NoStr, factors |-> factors]
    ELSE IF resolve_key(idx, Head(raw_factors).key) = None
         THEN [err |-> "KeyError", key |-> Str(str_of_key(Head(raw_factors).key)),
               factors |-> factors]
         ELSE resolve_factors(idx, Tail(raw_factors),
                  factors_set(factors, resolve_key(idx, Head(raw_factors).key),
                              Head(raw_factors).factor))

\* from_dict after its loop (r): the call cls(id=...) passes a keyword that
\* LoadCombination.__init__ does not accept
from_dict_construct(r) ==
    IF r.err # "" THEN r ELSE [r EXCEPT !.err = "TypeError"]

\* LoadCombination.from_dict(data, load_cases=...): [err, key, factors]
LoadCombination_from_dict(lcs, data, load_cases) ==
    from_dict_construct(
        resolve_factors(
            index_load_cases(lcs, load_cases, [by_id |-> <<>>, by_name |-> <<>>]),
            data.load_cases_factors, <<>>))

\* ------------------------------------------------------------ to_dict
\* Member.to_dict
Member_to_dict(w, m) ==
    [id |-> w.members[m].id,
     start_node |-> Node_to_dict(w, w.members[m].start_node),
     end_node |-> Node_to_dict(w, w.members[m].end_node),
     section |-> IF w.members[m].section # None
                 THEN sections[w.members[m].section].id ELSE None,
     rotation_angle |-> w.members[m].rotation_angle,
     start_hinge |-> IF w.members[m].start_hinge # None
                     THEN hinges[w.members[m].start_hinge].id ELSE None,
     end_hinge |-> IF w.members[m].end_hinge # None
                   THEN hinges[w.members[m].end_hinge].id ELSE None,
     classification |-> w.members[m].classification,
     weight |-> w.members[m].weight,
     chi |-> w.members[m].chi,
     reference_member |-> IF w.members[m].reference_member # None
                          THEN w.members[w.members[m].reference_member].id ELSE None,
     reference_node |-> IF w.members[m].reference_node # None
                        THEN w.nodes[w.members[m].reference_node].id ELSE None,
     member_type |-> MemberType_value(w.members[m].member_type)]

\* MemberSet.to_dict: the set's own fields and its members' records, in order
MemberSet_to_dict(w, ms) ==
    [id |-> w.membersets[ms].memberset_id,
     l_y |-> w.membersets[ms].l_y, l_z |-> w.membersets[ms].l_z,
     classification |-> w.membersets[ms].classification,
     members |-> [k \in DOMAIN w.membersets[ms].members |->
                     Member_to_dict(w, w.membersets[ms].members[k])]]

\* Section.to_dict
Section_to_dict(s) ==
    [id |-> sections[s].id, material |-> materials[sections[s].material].id,
     area |-> sections[s].area,
     shape_path |-> IF sections[s].shape_path # None
                    THEN shapes[sections[s].shape_path].id ELSE None]

\* Material.to_dict
Material_to_dict(m) == [id |-> materials[m].id, density |-> materials[m].density]
\* NodalSupport.to_dict
NodalSupport_to_dict(n) == [id |-> supports[n].id]
\* MemberHinge.to_dict
MemberHinge_to_dict(h) == [id |-> hinges[h].id]
\* ShapePath.to_dict
ShapePath_to_dict(p) == [id |-> shapes[p].id]

\* FERS.to_dict, the catalog arrays: the record of every collected object
materials_array(objs) == [k \in DOMAIN objs |-> Material_to_dict(objs[k])]
sections_array(objs) == [k \in DOMAIN objs |-> Section_to_dict(objs[k])]
nodal_supports_array(objs) == [k \in DOMAIN objs |-> NodalSupport_to_dict(objs[k])]
memberhinges_array(objs) == [k \in DOMAIN objs |-> MemberHinge_to_dict(objs[k])]
shape_paths_array(objs) == [k \in DOMAIN objs |-> ShapePath_to_dict(objs[k])]

\* LoadCase.to_dict, with the records NodalLoad.to_dict, NodalMoment.to_dict and
\* DistributedLoad.to_dict write for its loads (ids and references)
LoadCase_to_dict(w, lc) ==
    [id |-> loadcases[lc].id,
     name |-> loadcases[lc].name,
     nodal_loads |->
         [k \in DOMAIN loadcases[lc].nodal_loads |->
             [id |-> nodalloads[loadcases[lc].nodal_loads[k]].id,
              node |-> w.nodes[nodalloads[loadcases[lc].nodal_loads[k]].node].id,
              load_case |->
                  loadcases[nodalloads[loadcases[lc].nodal_loads[k]].load_case].id]],
     nodal_moments |->
         [k \in DOMAIN loadcases[lc].nodal_moments |->
             [id |-> nodalmoments[loadcases[lc].nodal_moments[k]].id,
              node |-> w.nodes[nodalmoments[loadcases[lc].nodal_moments[k]].node].id,
              load_case |->
                  loadcases[nodalmoments[loadcases[lc].nodal_moments[k]].load_case].id]],
     distributed_loads |->
         [k \in DOMAIN loadcases[lc].distributed_loads |->
             [id |-> distloads[loadcases[lc].distributed_loads[k]].id,
              member |->
                  w.members[distloads[loadcases[lc].distributed_loads[k]].member].id,
              load_case |->
                  loadcases[distloads[loadcases[lc].distributed_loads[k]].load_case].id,
              start_frac |-> distloads[loadcases[lc].distributed_loads[k]].start_frac,
              end_frac |-> distloads[loadcases[lc].distributed_loads[k]].end_frac]]]

\* LoadCombination.to_dict: load_cases_factors is keyed by the id of each load
\* case, in insertion order, a later equal id replacing the factor
LoadCombination_to_dict(c) ==
    [id |-> combos[c].id,
     load_cases_factors |->
         LET f == combos[c].load_cases_factors
         IN  LastByKey([k \in DOMAIN f |->
                           [key |-> loadcases[f[k].lc].id, factor |-> f[k].factor]],
                       [k \in DOMAIN f |-> loadcases[f[k].lc].id])]

\* FERS.to_dict for an aggregate without imperfection cases and results
FERS_to_dict(w, model) ==
    [member_sets |-> [k \in DOMAIN w.models[model].member_sets |->
                         MemberSet_to_dict(w, w.models[model].member_sets[k])],
     load_cases |-> [k \in DOMAIN w.models[model].load_cases |->
                        LoadCase_to_dict(w, w.models[model].load_cases[k])],
     load_combinations |-> [k \in DOMAIN w.models[model].load_combinations |->
                               LoadCombination_to_dict(w.models[model].load_combinations[k])],
     memberhinges |->
         memberhinges_array(get_unique_member_hinges_from_all_member_sets(w, model)),
     materials |-> materials_array(get_unique_materials_from_all_member_sets(w, model)),
     sections |-> sections_array(get_unique_sections_from_all_member_sets(w, model)),
     nodal_supports |->
         nodal_supports_array(get_unique_nodal_support_from_all_member_sets(w, model)),
     shape_paths |->
         shape_paths_array(get_unique_shape_paths_from_all_member_sets(w, model))]

\* ------------------------------------------------------------ from_dict
\* dict.setdefault(key, value)
setdefault(d, key, value) == IF key \in DOMAIN d THEN d ELSE (key :> value) @@ d

\* Node.get_or_create_from_dict for a dict record; the loader state L carries
\* the world w and the id maps; returns L with the node in L.node
get_or_create_from_dict(L, data, nodal_supports_by_id) ==
    IF data.id # None /\ data.id \in DOMAIN L.nodes_by_id
    THEN [L EXCEPT !.node = L.nodes_by_id[data.id]]
    ELSE [L EXCEPT !.w = Node_from_dict(L.w, data, Dict(nodal_supports_by_id)),
                   !.node = Len(L.w.nodes) + 1,
                   !.nodes_by_id = setdefault(@, PyOr(data.id, L.w.counter.Node),
                                              Len(L.w.nodes) + 1)]

\* Member.from_dict, "--- start node ---" and "--- end node ---": the node of
\* the embedded record data[key] when the record has one, else nodes_by_id[id]
\* for the bare id data[key_id], a KeyError when the map lacks it
node_of_record(L, data, key, key_id, cat) ==
    IF key \in DOMAIN data
    THEN get_or_create_from_dict(L, data[key], cat.nodal_supports_by_id)
    ELSE IF PyOr(data[key_id], None) \in DOMAIN L.nodes_by_id
         THEN [L EXCEPT !.node = L.nodes_by_id[data[key_id]]]
         ELSE [L EXCEPT !.err = "KeyError"]

\* Member.from_dict, "--- section ---" to "--- build ---" and the registration
\* after it: L1 is the loader state after the start node, L2 after the end node
Member_from_dict_build(L1, L2, data, cat) ==
    LET r == Member_init(L2.w, L1.node, L2.node,
                         IF data.section # None
                         THEN dict_get(cat.sections_by_id, data.section) ELSE None,
                         data.id,
                         IF data.start_hinge # None
                         THEN dict_get(cat.hinges_by_id, data.start_hinge) ELSE None,
                         IF data.end_hinge # None
                         THEN dict_get(cat.hinges_by_id, data.end_hinge) ELSE None,
                         data.classification, data.rotation_angle, data.weight, data.chi,
                         IF data.reference_member # None
                         THEN dict_get(L2.members_by_id, data.reference_member)
                         ELSE None,
                         IF data.reference_node # None
                         THEN dict_get(L2.nodes_by_id, data.reference_node) ELSE None,
                         data.member_type)
    IN  IF L2.err # "" THEN L2
        ELSE [L2 EXCEPT !.w = r.w, !.err = r.err,
                        !.members_by_id =
                            IF r.err = "" /\ data.id # None
                            THEN setdefault(@, data.id, Len(r.w.members)) ELSE @]

\* Member.from_dict after the start node was resolved (L1)
Member_from_dict_end(L1, data, cat) ==
    IF L1.err # "" THEN L1
    ELSE Member_from_dict_build(
             L1, node_of_record(L1, data, "end_node", "end_node_id", cat), data, cat)

\* Member.from_dict for a record whose nodes are embedded records or bare ids
\* and whose section, hinges and references are ids; cat holds the catalog id
\* maps
Member_from_dict(L, data, cat) ==
    Member_from_dict_end(
        node_of_record(L, data, "start_node", "start_node_id", cat), data, cat)

RECURSIVE load_members(_, _, _, _)
RECURSIVE load_members_made(_, _, _, _)
\* MemberSet.from_dict, the loop over the member records: new holds the
\* members built so far
load_members(L, todo, cat, new) ==
    IF todo = <<>> \/ L.err # "" THEN [L EXCEPT !.new = new]
    ELSE load_members_made(Member_from_dict(L, Head(todo), cat), todo, cat, new)

load_members_made(L, todo, cat, new) ==
    IF L.err # "" THEN [L EXCEPT !.new = new]
    ELSE load_members(L, Tail(todo), cat, Append(new, Len(L.w.members)))

RECURSIVE load_member_sets(_, _, _, _)
RECURSIVE load_member_sets_made(_, _, _, _)
\* FERS.from_dict, the loop over the member-set records: each set is rebuilt
\* with its id and classification and added to the new aggregate
load_member_sets(L, todo, cat, model) ==
    IF todo = <<>> \/ L.err # "" THEN L
    ELSE load_member_sets_made(load_members(L, Head(todo).members, cat, <<>>),
                               todo, cat, model)

load_member_sets_made(L, todo, cat, model) ==
    IF L.err # "" THEN L
    ELSE load_member_sets(
             [L EXCEPT !.w = add_member_set(
                                 MemberSet_init(L.w, L.new, Head(todo).classification,
                                                Head(todo).l_y, Head(todo).l_z,
                                                Head(todo).id),
                                 model, Len(L.w.membersets) + 1)],
             Tail(todo), cat, model)

\* the id map of catalog objects appended to a heap of `base` objects:
\* records[i] becomes object base + i, a later record replacing an earlier one
by_id(records, base) ==
    [id \in {records[i].id : i \in DOMAIN records} |->
        base + CHOOSE i \in DOMAIN records :
                   /\ records[i].id = id
                   /\ \A j \in DOMAIN records : records[j].id = id => j <= i]

\* FERS.from_dict, catalog stage: the objects built from the catalog arrays
loaded_materials(doc) ==
    [i \in DOMAIN doc.materials |->
        [id |-> doc.materials[i].id, density |-> doc.materials[i].density]]
loaded_shapes(doc) == [i \in DOMAIN doc.shape_paths |-> [id |-> doc.shape_paths[i].id]]
loaded_supports(doc) ==
    [i \in DOMAIN doc.nodal_supports |-> [id |-> doc.nodal_supports[i].id]]
loaded_hinges(doc) == [i \in DOMAIN doc.memberhinges |-> [id |-> doc.memberhinges[i].id]]
loaded_sections(doc) ==
    [i \in DOMAIN doc.sections |->
        [id |-> doc.sections[i].id,
         material |-> dict_get(by_id(doc.materials, Len(materials)),
                               doc.sections[i].material),
         area |-> doc.sections[i].area,
         shape_path |-> IF doc.sections[i].shape_path # None
                        THEN dict_get(by_id(doc.shape_paths, Len(shapes)),
                                      doc.sections[i].shape_path)
                        ELSE None]]

\* FERS.from_dict, the id maps handed to Member.from_dict
catalog_maps(doc) ==
    [nodal_supports_by_id |-> by_id(doc.nodal_supports, Len(supports)),
     sections_by_id |-> by_id(doc.sections, Len(sections)),
     hinges_by_id |-> by_id(doc.memberhinges, Len(hinges))]

\* FERS.from_dict, graph stage: a new aggregate, then the member sets; the
\* loader state it returns has the new world in .w and the error in .err
FERS_from_dict(w, doc) ==
    load_member_sets([w |-> FERS_init(w), nodes_by_id |-> <<>>, members_by_id |-> <<>>,
                      err |-> "", node |-> None, new |-> <<>>],
                     doc.member_sets, catalog_maps(doc), Len(w.models) + 1)

\* ------------------------------------------------------------ loads from_dict
\* a counter that a loaded id never moves
counter_kept(c, id) == c

\* from_dict, after the object is built: the kind's counter is put past the
\* record's explicit id (c is the counter the constructor left)
advance_counter(c, id) == IF id # None /\ id >= c THEN id + 1 ELSE c

\* NodalLoad.from_dict(data, nodes=..., load_case=...); the load state H carries
\* the counters, the load heaps and the exception raised
NodalLoad_from_dict(H, data, nodes_by_id, load_case) ==
    IF PyOr(data.node, None) = None THEN [H EXCEPT !.err = "ValueError"]
    ELSE IF data.node \notin DOMAIN nodes_by_id THEN [H EXCEPT !.err = "KeyError"]
    ELSE [H EXCEPT !.nodalloads =
                       Append(@, [id |-> IF data.id # None THEN data.id
                                         ELSE H.counter.NodalLoad,
                                  node |-> nodes_by_id[data.node],
                                  load_case |-> load_case]),
                   !.loadcases = add_nodal_load(@, load_case, Len(H.nodalloads) + 1),
                   !.counter.NodalLoad = advance_counter(@ + 1, data.id)]

\* NodalMoment.from_dict(data, nodes=..., load_case=...)
NodalMoment_from_dict(H, data, nodes_by_id, load_case) ==
    IF PyOr(data.node, None) = None THEN [H EXCEPT !.err = "ValueError"]
    ELSE IF data.node \notin DOMAIN nodes_by_id THEN [H EXCEPT !.err = "KeyError"]
    ELSE [H EXCEPT !.nodalmoments =
                       Append(@, [id |-> IF data.id # None THEN data.id
                                         ELSE H.counter.NodalMoment,
                                  node |-> nodes_by_id[data.node],
                                  load_case |-> load_case]),
                   !.loadcases = add_nodal_moment(@, load_case, Len(H.nodalmoments) + 1),
                   !.counter.NodalMoment = advance_counter(@ + 1, data.id)]

\* DistributedLoad.from_dict(data, members=..., load_case=...): a shape given
\* as a string is looked up among the enum's members before the constructor
\* runs
DistributedLoad_from_dict(H, data, members_by_id, load_case) ==
    IF PyOr(data.member, None) = None THEN [H EXCEPT !.err = "ValueError"]
    ELSE IF data.member \notin DOMAIN members_by_id THEN [H EXCEPT !.err = "KeyError"]
    ELSE IF ~data.distribution_shape.enum
            /\ data.distribution_shape.name \notin DistributionShapes
    THEN [H EXCEPT !.err = "KeyError"]
    ELSE IF DistributedLoad_error(data.distribution_shape, data.start_frac,
                                  data.end_frac) # ""
    THEN [H EXCEPT !.err = DistributedLoad_error(data.distribution_shape,
                                                 data.start_frac, data.end_frac)]
    ELSE [H EXCEPT !.distloads =
                       Append(@, [id |-> PyOr(data.id, H.counter.DistributedLoad),
                                  member |-> members_by_id[data.member],
                                  load_case |-> load_case,
                                  distribution_shape |-> data.distribution_shape.name,
                                  start_frac |-> data.start_frac,
                                  end_frac |-> data.end_frac]),
                   !.loadcases =
                       add_distributed_load(@, load_case, Len(H.distloads) + 1),
                   !.counter.DistributedLoad =
                       advance_counter(IF data.id = None THEN @ + 1 ELSE @, data.id)]

\* LoadCase.from_dict, what follows each X.from_dict of its loops: the load,
\* which its constructor registered with the load case, is added once more
add_loaded(H, kind, load_case) ==
    IF H.err # "" THEN H
    ELSE [H EXCEPT !.loadcases =
             CASE kind = "nodal_loads" -> add_nodal_load(@, load_case, Len(H.nodalloads))
               [] kind = "nodal_moments" ->
                      add_nodal_moment(@, load_case, Len(H.nodalmoments))
               [] kind = "distributed_loads" ->
                      add_distributed_load(@, load_case, Len(H.distloads))]

RECURSIVE load_records(_, _, _, _, _)
\* LoadCase.from_dict, one of its loops over the records of a kind
load_records(H, kind, todo, id_map, load_case) ==
    IF todo = <<>> \/ H.err # "" THEN H
    ELSE load_records(
             add_loaded(
                 CASE kind = "nodal_loads" ->
                          NodalLoad_from_dict(H, Head(todo), id_map, load_case)
                   [] kind = "nodal_moments" ->
                          NodalMoment_from_dict(H, Head(todo), id_map, load_case)
                   [] kind = "distributed_loads" ->
                          DistributedLoad_from_dict(H, Head(todo), id_map, load_case),
                 kind, load_case),
             kind, Tail(todo), id_map, load_case)

\* LoadCase.from_dict(data, nodes=..., members=...) for a record without
\* imperfections
LoadCase_from_dict(H, data, nodes_by_id, members_by_id) ==
    load_records(
        load_records(
            load_records(
                [H EXCEPT !.loadcases = Append(@, LoadCase_init(H.counter, data.name,
                                                                data.id)),
                          !.counter.LoadCase =
                              advance_counter(IF data.id = None THEN @ + 1 ELSE @,
                                              data.id)],
                "nodal_loads", data.nodal_loads, nodes_by_id, Len(H.loadcases) + 1),
            "nodal_moments", data.nodal_moments, nodes_by_id, Len(H.loadcases) + 1),
        "distributed_loads", data.distributed_loads, members_by_id,
        Len(H.loadcases) + 1)

\* ------------------------------------------------------------ SupportCondition
\* SupportConditionType: the names of the enum's members
SupportConditionTypes == {"FIXED", "FREE", "SPRING", "POSITIVE_ONLY", "NEGATIVE_ONLY"}

\* a validation that lets a unilateral condition carry any stiffness
validate_unilateral_unchecked(condition_type, stiffness) ==
    IF condition_type = "SPRING"
    THEN IF stiffness = None \/ stiffness <= 0 THEN "ValueError" ELSE ""
    ELSE IF condition_type \in {"POSITIVE_ONLY", "NEGATIVE_ONLY"} THEN ""
    ELSE IF stiffness # None THEN "ValueError" ELSE ""

\* SupportCondition.__init__ / _validate for an enum member: the exception
\* raised, "" when the object is constructed (stiffness in tenths)
SupportCondition_validate(condition_type, stiffness) ==
    IF condition_type = "SPRING"
    THEN IF stiffness = None THEN "ValueError"
         ELSE IF stiffness <= 0 THEN "ValueError"
         ELSE ""
    ELSE IF condition_type \in {"POSITIVE_ONLY", "NEGATIVE_ONLY"}
         THEN IF stiffness # None /\ stiffness <= 0 THEN "ValueError" ELSE ""
         ELSE IF stiffness # None THEN "ValueError" ELSE ""

\* the classmethods fixed(), free(), spring(stiffness), positive_only(stiffness)
\* and negative_only(stiffness): the type each passes to the constructor
SupportCondition_factories ==
    [fixed |-> "FIXED", free |-> "FREE", spring |-> "SPRING",
     positive_only |-> "POSITIVE_ONLY", negative_only |-> "NEGATIVE_ONLY"]

UpperLetters == <<"A", "B", "C", "D", "E", "F", "G", "H", "I", "J", "K", "L", "M", "N",
                  "O", "P", "Q", "R", "S", "T", "U", "V", "W", "X", "Y", "Z">>
LowerLetters == <<"a", "b", "c", "d", "e", "f", "g", "h", "i", "j", "k", "l", "m", "n",
                  "o", "p", "q", "r", "s", "t", "u", "v", "w", "x", "y", "z">>
RECURSIVE strip(_)
\* str.strip for blanks
strip(s) ==
    IF s # <<>> /\ Head(s) = " " THEN strip(Tail(s))
    ELSE IF s # <<>> /\ s[Len(s)] = " " THEN strip(SubSeq(s, 1, Len(s) - 1))
    ELSE s
\* str.lower
lower(s) ==
    [i \in DOMAIN s |-> IF s[i] \in Range(UpperLetters)
                        THEN LowerLetters[IndexOf(UpperLetters, s[i])] ELSE s[i]]
\* str.replace("_", "-")
replace_underscore(s) == [i \in DOMAIN s |-> IF s[i] = "_" THEN "-" ELSE s[i]]

\* SupportCondition.from_dict: the enum member a raw type denotes, "" when it
\* is unknown; raw is an enum member or a string
from_dict_condition_type(raw) ==
    IF raw.enum THEN raw.name
    ELSE LET r == replace_underscore(lower(strip(raw.s)))
         IN  IF r = <<"f", "i", "x", "e", "d">> THEN "FIXED"
             ELSE IF r = <<"f", "r", "e", "e">> THEN "FREE"
             ELSE IF r = <<"s", "p", "r", "i", "n", "g">> THEN "SPRING"
             ELSE IF r \in {<<"p", "o", "s", "i", "t", "i", "v", "e", "-", "o", "n", "l", "y">>,
                            <<"p", "o", "s", "i", "t", "i", "v", "e", "o", "n", "l", "y">>,
                            <<"p", "o", "s", "-", "o", "n", "l", "y">>,
                            <<"p", "o", "s">>}
                  THEN "POSITIVE_ONLY"
             ELSE IF r \in {<<"n", "e", "g", "a", "t", "i", "v", "e", "-", "o", "n", "l", "y">>,
                            <<"n", "e", "g", "a", "t", "i", "v", "e", "o", "n", "l", "y">>,
                            <<"n", "e", "g", "-", "o", "n", "l", "y">>,
                            <<"n", "e", "g">>}
                  THEN "NEGATIVE_ONLY"
             ELSE ""

\* SupportCondition.from_dict(data): data is None, or a dict with at most one
\* of the type keys and a stiffness; returns the type found and the exception
SupportCondition_from_dict(data) ==
    IF ~data.some THEN [condition_type |-> "", err |-> "ValueError"]
    ELSE IF data.key = "" THEN [condition_type |-> "", err |-> "ValueError"]
    ELSE IF from_dict_condition_type(data.raw) = ""
         THEN [condition_type |-> "", err |-> "ValueError"]
    ELSE [condition_type |-> from_dict_condition_type(data.raw),
          err |-> SupportCondition_validate(from_dict_condition_type(data.raw),
                                            data.stiffness)]

\* ------------------------------------------------------------ run_analysis
\* what the external solver does with a call: it raises, or it returns a string
\* that is no JSON, JSON that ResultsBundle rejects, or a valid bundle
SolverOutcomes == {"raises", "unparsable", "invalid", "valid"}

\* FERS.run_analysis and run_analysis_from_file: the exception of the two
\* try blocks
run_error(outcome) ==
    IF outcome = "raises" THEN "RuntimeError"
    ELSE IF outcome \in {"unparsable", "invalid"} THEN "ValueError"
    ELSE ""

\* a run that assigns whatever the solver answered
run_results_unvalidated(old, outcome, bundle) ==
    IF outcome = "raises" THEN old ELSE bundle

\* FERS.run_analysis and run_analysis_from_file: self.results after the call;
\* `self.results = validated_results` is the last statement of the second try
run_results(old, outcome, bundle) ==
    IF outcome = "valid" THEN bundle ELSE old

\* ------------------------------------------------------------ results
\* ret: the last operation (op), what it raised (err, "" for a normal return),
\* the object or aggregate it returned (obj), the aggregate it was applied to
\* (src) and its other arguments (arg).
NoRet == [op |-> "", err |-> "", obj |-> None, src |-> None, arg |-> <<>>]

Ret(op, err, obj, src, arg) ==
    [op |-> op, err |-> err, obj |-> obj, src |-> src, arg |-> arg]

SetWorld(w) ==
    /\ counter' = w.counter
    /\ nodes' = w.nodes
    /\ members' = w.members
    /\ all_members' = w.all_members
    /\ membersets' = w.membersets
    /\ models' = w.models

\* ------------------------------------------------------------ inputs
\* explicit ids a caller passes to constructors
ExplicitIds == {1, 3}
IdInputs == {None} \cup ExplicitIds
\* translation and spacing vectors
Vectors == {<<1, 2, 0>>}
OptRef(heap) == {None} \cup DOMAIN heap
\* still building: no aggregate-level operation has run yet
Building == ret.op \notin {"translate_model", "create_combined_model_pattern",
                         "to_dict", "from_dict", "run_analysis",
                         "run_analysis_from_file", "get_unique",
                         "combine_member_sets"}

\* ------------------------------------------------------------ client actions
\* NodalSupport(id=...)
NewNodalSupport(id) ==
    /\ Building
    /\ supports' = Append(supports, [id |-> PyOr(id, counter.NodalSupport)])
    /\ counter' = [counter EXCEPT !.NodalSupport = IF id = None THEN @ + 1 ELSE @]
    /\ ret' = Ret("NodalSupport", "", Len(supports) + 1, None, <<id>>)
    /\ UNCHANGED <<nodes, materials, shapes, sections, hinges, members, all_members,
                   membersets, models, loadVars>>

\* Material(material_id=...)
NewMaterial(material_id, density) ==
    /\ Building
    /\ materials' = Append(materials, [id |-> PyOr(material_id, counter.Material),
                                       density |-> density])
    /\ counter' = [counter EXCEPT !.Material = IF material_id = None THEN @ + 1 ELSE @]
    /\ ret' = Ret("Material", "", Len(materials) + 1, None, <<material_id>>)
    /\ UNCHANGED <<nodes, supports, shapes, sections, hinges, members, all_members,
                   membersets, models, loadVars>>

\* ShapePath(id=...)
NewShapePath(id) ==
    /\ Building
    /\ shapes' = Append(shapes, [id |-> PyOr(id, counter.ShapePath)])
    /\ counter' = [counter EXCEPT !.ShapePath = IF id = None THEN @ + 1 ELSE @]
    /\ ret' = Ret("ShapePath", "", Len(shapes) + 1, None, <<id>>)
    /\ UNCHANGED <<nodes, supports, materials, sections, hinges, members, all_members,
                   membersets, models, loadVars>>

\* Section(material=..., area=..., id=..., shape_path=...)
NewSection(id, material, area, shape_path) ==
    /\ Building
    /\ Len(sections) < MaxSections
    /\ sections' = Append(sections, [id |-> PyOr(id, counter.Section),
                                     material |-> material, area |-> area,
                                     shape_path |-> shape_path])
    /\ counter' = [counter EXCEPT !.Section = IF id = None THEN @ + 1 ELSE @]
    /\ ret' = Ret("Section", "", Len(sections) + 1, None, <<id>>)
    /\ UNCHANGED <<nodes, supports, materials, shapes, hinges, members, all_members,
                   membersets, models, loadVars>>

\* MemberHinge(id=...)
NewMemberHinge(id) ==
    /\ Building
    /\ hinges' = Append(hinges, [id |-> PyOr(id, counter.MemberHinge)])
    /\ counter' = [counter EXCEPT !.MemberHinge = IF id = None THEN @ + 1 ELSE @]
    /\ ret' = Ret("MemberHinge", "", Len(hinges) + 1, None, <<id>>)
    /\ UNCHANGED <<nodes, supports, materials, shapes, sections, members, all_members,
                   membersets, models, loadVars>>

\* Node(X, Y, Z, id=..., nodal_support=...)
NewNode(X, id, nodal_support) ==
    /\ Building
    /\ Len(nodes) < MaxNodes
    /\ SetWorld(Node_init(World, X, 0, 0, id, "", nodal_support))
    /\ ret' = Ret("Node", "", Len(nodes) + 1, None, <<id>>)
    /\ UNCHANGED <<catalogVars, loadVars>>

\* Member(start_node, end_node, section=..., ...)
NewMember(start_node, end_node, section, id, start_hinge, end_hinge, weight, reference_member, reference_node, member_type) ==
    /\ Building
    /\ Len(members) < MaxMembers
    /\ LET r == Member_init(World, start_node, end_node, section, id, start_hinge,
                            end_hinge, "", 0, weight, None, reference_member,
                            reference_node, member_type)
       IN  /\ SetWorld(r.w)
           /\ ret' = Ret("Member", r.err, IF r.err = "" THEN Len(members) + 1 ELSE None,
                         None, <<id, section, member_type, weight, start_node, end_node>>)
    /\ UNCHANGED <<catalogVars, loadVars>>

\* MemberSet(members=[...])
NewMemberSet(mems) ==
    /\ Building
    /\ Len(membersets) < MaxMemberSets
    /\ SetWorld(MemberSet_init(World, mems, "", None, None, None))
    /\ ret' = Ret("MemberSet", "", Len(membersets) + 1, None, <<>>)
    /\ UNCHANGED <<catalogVars, loadVars>>

\* model.add_member_set(ms) on the client's aggregate
AddMemberSet(ms) ==
    /\ Building
    /\ SetWorld(add_member_set(World, 1, ms))
    /\ ret' = Ret("add_member_set", "", None, 1, <<ms>>)
    /\ UNCHANGED <<catalogVars, loadVars>>

\* FERS.translate_model(model, v)
TranslateModel(v) ==
    /\ Building
    /\ LET r == translate_model(World, 1, v)
       IN  /\ SetWorld(r.w)
           /\ ret' = Ret("translate_model", r.err, r.model, 1, <<v>>)
    /\ UNCHANGED <<catalogVars, loadVars>>

\* FERS.create_combined_model_pattern(model, count, spacing_vector)
CreateCombinedModelPattern(count, sp) ==
    /\ Building
    /\ LET r == create_combined_model_pattern(World, 1, count, sp)
       IN  /\ SetWorld(r.w)
           /\ ret' = Ret("create_combined_model_pattern", r.err, r.model, 1,
                         <<count, sp, r.mm>>)
    /\ UNCHANGED <<catalogVars, loadVars>>

\* Node.from_dict(data, nodal_supports_by_id)
NodeFromDict(data, nodal_supports_by_id) ==
    /\ Building
    /\ Len(nodes) < MaxNodes
    /\ SetWorld(Node_from_dict(World, data, nodal_supports_by_id))
    /\ ret' = Ret("Node.from_dict", "", Len(nodes) + 1, None, <<data.id>>)
    /\ UNCHANGED <<catalogVars, loadVars>>

\* LoadCase(name=..., id=...)
NewLoadCase(name, id) ==
    /\ loadcases' = Append(loadcases, LoadCase_init(counter, name, id))
    /\ counter' = [counter EXCEPT !.LoadCase = IF id = None THEN @ + 1 ELSE @]
    /\ ret' = Ret("LoadCase", "", Len(loadcases) + 1, None, <<id>>)
    /\ UNCHANGED <<nodes, catalogVars, members, all_members, membersets, models,
                   nodalloads, nodalmoments, distloads, combos, impcases>>

\* ImperfectionCase(loadcombinations=[], imperfection_case_id=...)
NewImperfectionCase(imperfection_case_id) ==
    /\ impcases' = Append(impcases,
           [imperfection_case_id |-> PyOr(imperfection_case_id, counter.ImperfectionCase),
            loadcombinations |-> <<>>])
    /\ counter' = [counter EXCEPT !.ImperfectionCase =
                      IF imperfection_case_id = None THEN @ + 1 ELSE @]
    /\ ret' = Ret("ImperfectionCase", "", Len(impcases) + 1, None,
                  <<imperfection_case_id>>)
    /\ UNCHANGED <<nodes, catalogVars, members, all_members, membersets, models,
                   loadcases, nodalloads, nodalmoments, distloads, combos>>

\* NodalLoad(node, load_case, ...)
NewNodalLoad(node, load_case) ==
    /\ nodalloads' = Append(nodalloads, [id |-> counter.NodalLoad, node |-> node,
                                         load_case |-> load_case])
    /\ counter' = [counter EXCEPT !.NodalLoad = @ + 1]
    /\ loadcases' = add_nodal_load(loadcases, load_case, Len(nodalloads) + 1)
    /\ ret' = Ret("NodalLoad", "", Len(nodalloads) + 1, load_case, <<node>>)
    /\ UNCHANGED <<nodes, catalogVars, members, all_members, membersets, models,
                   nodalmoments, distloads, combos, impcases>>

\* NodalMoment(node, load_case, ...)
NewNodalMoment(node, load_case) ==
    /\ nodalmoments' = Append(nodalmoments, [id |-> counter.NodalMoment, node |-> node,
                                             load_case |-> load_case])
    /\ counter' = [counter EXCEPT !.NodalMoment = @ + 1]
    /\ loadcases' = add_nodal_moment(loadcases, load_case, Len(nodalmoments) + 1)
    /\ ret' = Ret("NodalMoment", "", Len(nodalmoments) + 1, load_case, <<node>>)
    /\ UNCHANGED <<nodes, catalogVars, members, all_members, membersets, models,
                   nodalloads, distloads, combos, impcases>>

\* DistributedLoad(member, load_case, distribution_shape, ..., start_frac, end_frac, id)
NewDistributedLoad(member, load_case, distribution_shape, start_frac, end_frac, id) ==
    /\ counter' = [counter EXCEPT !.DistributedLoad =
                      IF DistributedLoad_took_id(distribution_shape, start_frac, end_frac)
                         /\ id = None
                      THEN @ + 1 ELSE @]
    /\ IF DistributedLoad_error(distribution_shape, start_frac, end_frac) = ""
       THEN /\ distloads' = Append(distloads,
                   [id |-> PyOr(id, counter.DistributedLoad), member |-> member,
                    load_case |-> load_case,
                    distribution_shape |-> distribution_shape.name,
                    start_frac |-> start_frac, end_frac |-> end_frac])
            /\ loadcases' = add_distributed_load(loadcases, load_case, Len(distloads) + 1)
            /\ ret' = Ret("DistributedLoad", "", Len(distloads) + 1, load_case,
                          <<distribution_shape, start_frac, end_frac, id>>)
       ELSE /\ UNCHANGED <<distloads, loadcases>>
            /\ ret' = Ret("DistributedLoad",
                          DistributedLoad_error(distribution_shape, start_frac, end_frac),
                          None, load_case,
                          <<distribution_shape, start_frac, end_frac, id>>)
    /\ UNCHANGED <<nodes, catalogVars, members, all_members, membersets, models,
                   nodalloads, nodalmoments, combos, impcases>>

\* LoadCombination(name=..., load_cases_factors={...})
NewLoadCombination(load_cases_factors) ==
    /\ combos' = Append(combos, [id |-> counter.LoadCombination,
                                 load_cases_factors |-> load_cases_factors])
    /\ counter' = [counter EXCEPT !.LoadCombination = @ + 1]
    /\ ret' = Ret("LoadCombination", "", Len(combos) + 1, None, <<>>)
    /\ UNCHANGED <<nodes, catalogVars, members, all_members, membersets, models,
                   loadcases, nodalloads, nodalmoments, distloads, impcases>>

\* LoadCombination.from_dict(data, load_cases=...): it raises on every input,
\* so the process state is left as it was
LoadCombinationFromDict(data, load_cases) ==
    /\ LET r == LoadCombination_from_dict(loadcases, data, load_cases)
       IN  ret' = Ret("LoadCombination.from_dict", r.err, None, None,
                      <<data, load_cases, r.key, r.factors>>)
    /\ UNCHANGED <<counter, nodes, catalogVars, members, all_members, membersets,
                   models, loadVars>>

\* FERS.to_dict() on the client's aggregate
ToDict ==
    /\ Building
    /\ ret' = Ret("to_dict", "", None, 1, <<FERS_to_dict(World, 1)>>)
    /\ UNCHANGED <<counter, nodes, members, all_members, membersets, models,
                   catalogVars, loadVars>>

\* FERS.from_dict(doc): the catalog objects, then the graph
FromDict(doc) ==
    /\ LET L == FERS_from_dict(World, doc)
       IN  /\ SetWorld(L.w)
           /\ ret' = Ret("from_dict", L.err,
                         IF L.err = "" THEN Len(models) + 1 ELSE None, 1, <<doc>>)
    /\ materials' = materials \o loaded_materials(doc)
    /\ shapes' = shapes \o loaded_shapes(doc)
    /\ supports' = supports \o loaded_supports(doc)
    /\ hinges' = hinges \o loaded_hinges(doc)
    /\ sections' = sections \o loaded_sections(doc)
    /\ UNCHANGED loadVars

\* the five unique-catalog extractions of FERS, by the catalog's name
CatalogKinds == {"materials", "sections", "nodal_supports", "memberhinges", "shape_paths"}
get_unique_from_all_member_sets(w, model, kind) ==
    CASE kind = "materials" -> get_unique_materials_from_all_member_sets(w, model)
      [] kind = "sections" -> get_unique_sections_from_all_member_sets(w, model)
      [] kind = "nodal_supports" -> get_unique_nodal_support_from_all_member_sets(w, model)
      [] kind = "memberhinges" -> get_unique_member_hinges_from_all_member_sets(w, model)
      [] kind = "shape_paths" -> get_unique_shape_paths_from_all_member_sets(w, model)

\* model.get_unique_<kind>_from_all_member_sets() called twice in a row on the
\* client's aggregate; neither call assigns anything
GetUniqueTwice(kind) ==
    /\ Building
    /\ ret' = Ret("get_unique", "", None, 1,
                  <<kind, get_unique_from_all_member_sets(World, 1, kind),
                    get_unique_from_all_member_sets(World, 1, kind)>>)
    /\ UNCHANGED <<counter, nodes, members, all_members, membersets, models,
                   catalogVars, loadVars>>

\* FERS.combine_member_sets(s1, ..., sn)
CombineMemberSets(member_sets) ==
    /\ Building
    /\ SetWorld(combine_member_sets(World, member_sets))
    /\ ret' = Ret("combine_member_sets", "", Len(membersets) + 1, None, <<member_sets>>)
    /\ UNCHANGED <<catalogVars, loadVars>>

\* SupportCondition(condition_type, stiffness)
NewSupportCondition(condition_type, stiffness) ==
    /\ ret' = Ret("SupportCondition", SupportCondition_validate(condition_type, stiffness),
                  None, None, <<condition_type, stiffness>>)
    /\ UNCHANGED <<counter, nodes, members, all_members, membersets, models,
                   catalogVars, loadVars>>

\* SupportCondition.fixed(), .free(), .spring(k), .positive_only(k), .negative_only(k)
SupportConditionFactory(factory, stiffness) ==
    /\ ret' = Ret("SupportCondition.factory",
                  SupportCondition_validate(SupportCondition_factories[factory], stiffness),
                  None, None, <<SupportCondition_factories[factory], stiffness, factory>>)
    /\ UNCHANGED <<counter, nodes, members, all_members, membersets, models,
                   catalogVars, loadVars>>

\* SupportCondition.from_dict(data)
SupportConditionFromDict(data) ==
    /\ ret' = Ret("SupportCondition.from_dict", SupportCondition_from_dict(data).err,
                  None, None,
                  <<SupportCondition_from_dict(data).condition_type,
                    IF data.some THEN data.stiffness ELSE None, data>>)
    /\ UNCHANGED <<counter, nodes, members, all_members, membersets, models,
                   catalogVars, loadVars>>

\* the loader state of a call: the world, and the id maps the client's script
\* shares between its loader calls (those the last such call left behind)
LoaderCalls == {"Member.from_dict", "Node.get_or_create_from_dict"}
LoaderState ==
    [w |-> World,
     nodes_by_id |-> IF ret.op \in LoaderCalls THEN ret.arg[1].nodes_by_id ELSE <<>>,
     members_by_id |-> IF ret.op \in LoaderCalls THEN ret.arg[1].members_by_id ELSE <<>>,
     err |-> "", node |-> None, new |-> <<>>]
\* the catalog id maps the client built from its catalog objects
ClientCatalog ==
    [nodal_supports_by_id |-> by_id(supports, 0),
     sections_by_id |-> by_id(sections, 0),
     hinges_by_id |-> by_id(hinges, 0)]
LoaderRet(op, L, obj, data) ==
    Ret(op, L.err, IF L.err = "" THEN obj ELSE None, None,
        <<[nodes_by_id |-> L.nodes_by_id, members_by_id |-> L.members_by_id], data,
          LoaderState.nodes_by_id>>)

\* Node.get_or_create_from_dict(data, nodes_by_id, nodal_supports_by_id)
NodeGetOrCreateFromDict(data) ==
    /\ LET L == get_or_create_from_dict(LoaderState, data,
                                        ClientCatalog.nodal_supports_by_id)
       IN  /\ SetWorld(L.w)
           /\ ret' = LoaderRet("Node.get_or_create_from_dict", L, L.node, data)
    /\ UNCHANGED <<catalogVars, loadVars>>

\* Member.from_dict(data, nodes_by_id=..., members_by_id=..., sections_by_id=...,
\* hinges_by_id=..., nodal_supports_by_id=...)
MemberFromDict(data) ==
    /\ LET L == Member_from_dict(LoaderState, data, ClientCatalog)
       IN  /\ SetWorld(L.w)
           /\ ret' = LoaderRet("Member.from_dict", L, Len(L.w.members), data)
    /\ UNCHANGED <<catalogVars, loadVars>>

\* Member.from_dict(m.to_dict(), nodes_by_id=..., members_by_id=...,
\* sections_by_id=..., hinges_by_id=..., nodal_supports_by_id=...) for the
\* member m of the process and the id maps the client passes
MemberRoundTrip(m, nodes_by_id, members_by_id) ==
    /\ LET L == Member_from_dict([w |-> World, nodes_by_id |-> nodes_by_id,
                                  members_by_id |-> members_by_id, err |-> "",
                                  node |-> None, new |-> <<>>],
                                 Member_to_dict(World, m), ClientCatalog)
       IN  /\ SetWorld(L.w)
           /\ ret' = Ret("Member.from_dict", L.err,
                         IF L.err = "" THEN Len(L.w.members) ELSE None, m,
                         <<[nodes_by_id |-> L.nodes_by_id,
                            members_by_id |-> L.members_by_id],
                           Member_to_dict(World, m), nodes_by_id, members_by_id>>)
    /\ UNCHANGED <<catalogVars, loadVars>>

\* the load state of the process, and the id maps of its nodes and members
LoadHeap ==
    [counter |-> counter, loadcases |-> loadcases, nodalloads |-> nodalloads,
     nodalmoments |-> nodalmoments, distloads |-> distloads, err |-> ""]
SetLoadHeap(H) ==
    /\ counter' = H.counter
    /\ loadcases' = H.loadcases
    /\ nodalloads' = H.nodalloads
    /\ nodalmoments' = H.nodalmoments
    /\ distloads' = H.distloads
    /\ UNCHANGED <<nodes, catalogVars, members, all_members, membersets, models,
                   combos, impcases>>

\* NodalLoad.from_dict(data, nodes={node.id: node ...}, load_case=load_case)
NodalLoadFromDict(data, load_case) ==
    /\ SetLoadHeap(NodalLoad_from_dict(LoadHeap, data, by_id(nodes, 0), load_case))
    /\ ret' = Ret("NodalLoad.from_dict",
                  NodalLoad_from_dict(LoadHeap, data, by_id(nodes, 0), load_case).err,
                  Len(nodalloads) + 1, load_case, <<data.id>>)

\* NodalMoment.from_dict(data, nodes={node.id: node ...}, load_case=load_case)
NodalMomentFromDict(data, load_case) ==
    /\ SetLoadHeap(NodalMoment_from_dict(LoadHeap, data, by_id(nodes, 0), load_case))
    /\ ret' = Ret("NodalMoment.from_dict",
                  NodalMoment_from_dict(LoadHeap, data, by_id(nodes, 0), load_case).err,
                  Len(nodalmoments) + 1, load_case, <<data.id>>)

\* DistributedLoad.from_dict(data, members={member.id: member ...},
\* load_case=load_case)
DistributedLoadFromDict(data, load_case) ==
    /\ SetLoadHeap(DistributedLoad_from_dict(LoadHeap, data, by_id(members, 0),
                                             load_case))
    /\ ret' = Ret("DistributedLoad.from_dict",
                  DistributedLoad_from_dict(LoadHeap, data, by_id(members, 0),
                                            load_case).err,
                  Len(distloads) + 1, load_case, <<data.id>>)

\* LoadCase.from_dict(data, nodes=..., members=...)
LoadCaseFromDict(data) ==
    /\ SetLoadHeap(LoadCase_from_dict(LoadHeap, data, by_id(nodes, 0),
                                      by_id(members, 0)))
    /\ ret' = Ret("LoadCase.from_dict",
                  LoadCase_from_dict(LoadHeap, data, by_id(nodes, 0),
                                     by_id(members, 0)).err,
                  Len(loadcases) + 1, None, <<data.id, data>>)

\* model.add_load_case(load_case) on the client's aggregate
AddLoadCase(load_case) ==
    /\ models' = [models EXCEPT ![1].load_cases = Append(@, load_case)]
    /\ ret' = Ret("add_load_case", "", None, 1, <<load_case>>)
    /\ UNCHANGED <<counter, nodes, members, all_members, membersets, catalogVars,
                   loadVars>>

\* model.add_load_combination(load_combination) on the client's aggregate
AddLoadCombination(load_combination) ==
    /\ models' = [models EXCEPT ![1].load_combinations = Append(@, load_combination)]
    /\ ret' = Ret("add_load_combination", "", None, 1, <<load_combination>>)
    /\ UNCHANGED <<counter, nodes, members, all_members, membersets, catalogVars,
                   loadVars>>

\* model.reset_counters() on the client's aggregate
ResetCounters ==
    /\ counter' = reset_counters(counter)
    /\ ret' = Ret("reset_counters", "", None, 1, <<>>)
    /\ UNCHANGED <<nodes, members, all_members, membersets, models, catalogVars,
                   loadVars>>

\* model.run_analysis() on the client's aggregate; run is the number of the run
\* and names the bundle a valid answer carries
RunAnalysis(run, outcome) ==
    /\ ret' = Ret("run_analysis", run_error(outcome), None, 1, <<run, outcome>>)
    /\ models' = [models EXCEPT ![1].results = run_results(@, outcome, run)]
    /\ UNCHANGED <<counter, nodes, members, all_members, membersets, catalogVars,
                   loadVars>>

\* model.run_analysis_from_file(file_path) on the client's aggregate
RunAnalysisFromFile(run, outcome) ==
    /\ ret' = Ret("run_analysis_from_file", run_error(outcome), None, 1,
                  <<run, outcome>>)
    /\ models' = [models EXCEPT ![1].results = run_results(@, outcome, run)]
    /\ UNCHANGED <<counter, nodes, members, all_members, membersets, catalogVars,
                   loadVars>>

\* ------------------------------------------------------------ Init
EmptyModel ==
    [member_sets |-> <<>>, load_cases |-> <<>>, load_combinations |-> <<>>,
     results |-> None]

\* The process right after the client's `FERS()`.
InitEmpty ==
    /\ counter = InitialCounters
    /\ nodes = <<>>
    /\ supports = <<>>
    /\ materials = <<>>
    /\ shapes = <<>>
    /\ sections = <<>>
    /\ hinges = <<>>
    /\ members = <<>>
    /\ all_members = <<>>
    /\ membersets = <<>>
    /\ models = <<EmptyModel>>
    /\ loadcases = <<>>
    /\ nodalloads = <<>>
    /\ nodalmoments = <<>>
    /\ distloads = <<>>
    /\ combos = <<>>
    /\ impcases = <<>>
    /\ ret = NoRet

\* The process after `FERS()` and the client's catalog: one Material, one
\* Section of it, one NodalSupport and one MemberHinge, all with automatic ids.
Init ==
    /\ counter = [InitialCounters EXCEPT !.Material = 2, !.Section = 2,
                                         !.NodalSupport = 2, !.MemberHinge = 2]
    /\ nodes = <<>>
    /\ supports = <<[id |-> 1]>>
    /\ materials = <<[id |-> 1, density |-> 2]>>
    /\ shapes = <<>>
    /\ sections = <<[id |-> 1, material |-> 1, area |-> 3, shape_path |-> None]>>
    /\ hinges = <<[id |-> 1]>>
    /\ members = <<>>
    /\ all_members = <<>>
    /\ membersets = <<>>
    /\ models = <<EmptyModel>>
    /\ loadcases = <<>>
    /\ nodalloads = <<>>
    /\ nodalmoments = <<>>
    /\ distloads = <<>>
    /\ combos = <<>>
    /\ impcases = <<>>
    /\ ret = NoRet

\* ------------------------------------------------------------ Spec
\* how a client fills a node: with an explicit id, or with the support
NodeInputs == {<<None, None>>, <<1, None>>, <<None, 1>>}
\* how a client fills a member: <<section, start_hinge, end_hinge, member_type>>
MemberInputs == {<<1, None, None, "NORMAL">>, <<1, 1, 1, "NORMAL">>,
                 <<None, None, None, "RIGID">>}
\* a member's links: <<reference_member, reference_node>>
LinkInputs == {<<None, None>>} \cup {<<m, None>> : m \in DOMAIN members}
                 \cup {<<None, Len(nodes)>>}
\* the members already grouped into a member set
Grouped == UNION {Range(membersets[k].members) : k \in DOMAIN membersets}
\* the member lists a client groups next: not yet grouped, in creation order
MemberLists ==
    LET free == {m \in DOMAIN members : \A g \in Grouped : g < m}
    IN  {<<a>> : a \in free} \cup
        {<<p[1], p[2]>> : p \in {q \in free \X free : q[1] < q[2]}}
\* every member set made so far is in the client's aggregate
AllAdded == Len(models[1].member_sets) = Len(membersets)

Next ==
    \/ /\ members = <<>>
       /\ \E i \in NodeInputs : NewNode(Len(nodes), i[1], i[2])
    \/ /\ membersets = <<>>
       /\ \E s \in DOMAIN nodes, e \in DOMAIN nodes, i \in MemberInputs, l \in LinkInputs :
             /\ s < e
             /\ NewMember(s, e, i[1], None, i[2], i[3], None, l[1], l[2], i[4])
    \/ /\ AllAdded
       /\ \E ml \in MemberLists : NewMemberSet(ml)
    \/ /\ ~AllAdded
       /\ AddMemberSet(Len(membersets))
    \/ /\ AllAdded /\ membersets # <<>>
       /\ \E v \in Vectors : TranslateModel(v)
    \/ /\ AllAdded /\ membersets # <<>>
       /\ \E c \in 1..MaxCount, v \in Vectors : CreateCombinedModelPattern(c, v)

Spec == Init /\ [][Next]_vars

\* ------------------------------------------------------------ SpecCtor
\* A client that calls constructors: after `FERS()` and two nodes, at most
\* MaxObjects further entities, with or without explicit ids.
CtorNodes ==
    <<[id |-> 1, X |-> 0, Y |-> 0, Z |-> 0, classification |-> "", nodal_support |-> None],
      [id |-> 2, X |-> 1, Y |-> 0, Z |-> 0, classification |-> "", nodal_support |-> None]>>

InitCtor ==
    /\ counter = [InitialCounters EXCEPT !.Node = Len(CtorNodes) + 1]
    /\ nodes = CtorNodes
    /\ supports = <<>>
    /\ materials = <<>>
    /\ shapes = <<>>
    /\ sections = <<>>
    /\ hinges = <<>>
    /\ members = <<>>
    /\ all_members = <<>>
    /\ membersets = <<>>
    /\ models = <<EmptyModel>>
    /\ loadcases = <<>>
    /\ nodalloads = <<>>
    /\ nodalmoments = <<>>
    /\ distloads = <<>>
    /\ combos = <<>>
    /\ impcases = <<>>
    /\ ret = NoRet

\* the entities constructed so far, and the calls a client still makes
CtorObjects ==
    Len(nodes) + Len(supports) + Len(materials) + Len(shapes) + Len(sections)
    + Len(hinges) + Len(members) + Len(loadcases) + Len(impcases) + Len(distloads)
\* (an exception ends the client's script)
CtorBudget ==
    /\ CtorObjects < Len(CtorNodes) + MaxObjects
    /\ ret.err = ""
\* weight arguments of Member(...)
WeightInputs == {None, 5}
\* member_type arguments of Member(...): enum members and a value string
MemberTypeInputs == MemberTypes \cup {"Rigid"}
\* the record Node.to_dict writes for a node with the given id at (x, 0, 0)
NodeRecord(id, x) ==
    [id |-> id, classification |-> "", X |-> x, Y |-> 0, Z |-> 0, nodal_support |-> None]
Uniform == [enum |-> TRUE, name |-> "UNIFORM"]

NextCtor ==
    \/ /\ CtorBudget
       /\ \E id \in IdInputs : NewNodalSupport(id)
    \/ /\ CtorBudget
       /\ \E id \in IdInputs : NewMaterial(id, 2)
    \/ /\ CtorBudget
       /\ \E id \in IdInputs : NewShapePath(id)
    \/ /\ CtorBudget
       /\ \E id \in IdInputs, m \in DOMAIN materials, sp \in OptRef(shapes) :
             NewSection(id, m, 3, sp)
    \/ /\ CtorBudget
       /\ \E id \in IdInputs : NewMemberHinge(id)
    \/ /\ CtorBudget
       /\ \E id \in IdInputs, ns \in OptRef(supports) : NewNode(Len(nodes), id, ns)
    \/ /\ CtorBudget
       /\ \E id \in IdInputs : NodeFromDict(NodeRecord(id, Len(nodes)), NoDict)
    \/ /\ CtorBudget
       /\ \E id \in IdInputs, section \in OptRef(sections), weight \in WeightInputs,
             mt \in MemberTypeInputs, end_node \in {1, 2} :
             NewMember(1, end_node, section, id, None, None, weight, None, None, mt)
    \/ /\ CtorBudget
       /\ \E id \in IdInputs : NewLoadCase(NoStr, id)
    \/ /\ CtorBudget
       /\ \E id \in IdInputs : NewImperfectionCase(id)
    \/ /\ CtorBudget
       /\ \E id \in IdInputs, m \in DOMAIN members, lc \in DOMAIN loadcases :
             NewDistributedLoad(m, lc, Uniform, 0, 10, id)

SpecCtor == InitCtor /\ [][NextCtor]_vars

\* ------------------------------------------------------------ SpecLoads
\* A client that loads a structure: after `FERS()`, two nodes and a rigid
\* member between them, at most MaxObjects load cases, loads and combinations,
\* and LoadCombination.from_dict calls over the load cases made so far.
LoadsWorld ==
    Member_init([counter |-> [InitialCounters EXCEPT !.Node = Len(CtorNodes) + 1],
                 nodes |-> CtorNodes, members |-> <<>>, all_members |-> <<>>,
                 membersets |-> <<>>, models |-> <<EmptyModel>>],
                1, 2, None, None, None, None, "", 0, None, None, None, None, "RIGID").w

InitLoads ==
    /\ counter = LoadsWorld.counter
    /\ nodes = LoadsWorld.nodes
    /\ supports = <<>>
    /\ materials = <<>>
    /\ shapes = <<>>
    /\ sections = <<>>
    /\ hinges = <<>>
    /\ members = LoadsWorld.members
    /\ all_members = LoadsWorld.all_members
    /\ membersets = <<>>
    /\ models = <<EmptyModel>>
    /\ loadcases = <<>>
    /\ nodalloads = <<>>
    /\ nodalmoments = <<>>
    /\ distloads = <<>>
    /\ combos = <<>>
    /\ impcases = <<>>
    /\ ret = NoRet

LoadObjects ==
    Len(loadcases) + Len(nodalloads) + Len(nodalmoments) + Len(distloads) + Len(combos)
\* (an exception ends the client's script, and so does to_dict)
LoadBudget ==
    /\ LoadObjects < MaxObjects
    /\ ret.err = ""
    /\ Building
\* name arguments of LoadCase(...): none, a word, a string of digits
NameInputs == {NoStr, Str(<<"A">>), Str(<<"2">>)}
\* start_frac and end_frac arguments, in tenths
Fractions == {0 - 1, 0, 5, 10, 11}
\* distribution_shape arguments: an enum member, a member's name, another string
ShapeInputs == {Uniform, [enum |-> FALSE, name |-> "TRIANGULAR"],
                [enum |-> FALSE, name |-> "bogus"]}
\* keys of a serialized load_cases_factors
KeyInputs == {IntKey(1), IntKey(2), StrKey(<<"2">>), StrKey(<<"A">>), StrKey(<<"B">>)}
\* serialized load_cases_factors of one or two entries, in document order
RawFactors ==
    {<<[key |-> k, factor |-> 1]>> : k \in KeyInputs} \cup
    {<<[key |-> p[1], factor |-> 1], [key |-> p[2], factor |-> 2]>> :
        p \in {q \in KeyInputs \X KeyInputs : q[1] # q[2]}}
\* the load_cases collections a caller supplies: one or two of the load cases
Collections ==
    {<<i>> : i \in DOMAIN loadcases} \cup
    {<<p[1], p[2]>> : p \in {q \in (DOMAIN loadcases) \X (DOMAIN loadcases) : q[1] # q[2]}}
\* the document of a combination with the given load_cases_factors
ComboRecord(raw_factors) ==
    [id |-> 1, name |-> <<"C">>, load_cases_factors |-> raw_factors]

NextLoads ==
    \/ /\ LoadBudget
       /\ \E name \in NameInputs, id \in {None, 1} : NewLoadCase(name, id)
    \/ /\ LoadBudget
       /\ \E lc \in DOMAIN loadcases : NewNodalLoad(1, lc)
    \/ /\ LoadBudget
       /\ \E lc \in DOMAIN loadcases : NewNodalMoment(1, lc)
    \/ /\ LoadBudget
       /\ \E lc \in DOMAIN loadcases, shape \in ShapeInputs, s \in Fractions,
             e \in Fractions :
             NewDistributedLoad(1, lc, shape, s, e, None)
    \/ /\ LoadBudget
       /\ \E lc \in DOMAIN loadcases : NewLoadCombination(<<[lc |-> lc, factor |-> 1]>>)
    \/ /\ LoadBudget
       /\ \E rf \in RawFactors, coll \in Collections :
             LoadCombinationFromDict(ComboRecord(rf), coll)
    \/ /\ LoadBudget /\ ret.op # "reset_counters"
       /\ ResetCounters
    \/ /\ ret.err = "" /\ ret.op = "LoadCase"
       /\ AddLoadCase(ret.obj)
    \/ /\ ret.err = "" /\ ret.op = "LoadCombination"
       /\ AddLoadCombination(ret.obj)
    \/ /\ ret.err = ""
       /\ models[1].load_cases # <<>> \/ models[1].load_combinations # <<>>
       /\ ToDict

SpecLoads == InitLoads /\ [][NextLoads]_vars

\* ------------------------------------------------------------ SpecDoc
\* A client that serializes: after `FERS()` and the catalog of Init, possibly a
\* second Section, then nodes, members and member sets, then to_dict() and
\* from_dict() of the document.
\* how a client fills a node: <<id, nodal_support>>
DocNodeInputs == {<<None, None>>, <<None, 1>>}
\* how a client fills a member: <<start_hinge, end_hinge, member_type>>
DocMemberInputs == {<<None, None, "NORMAL">>, <<1, 1, "NORMAL">>, <<None, None, "RIGID">>}
\* the section of a member of the given type
DocSections(member_type) ==
    IF member_type = "RIGID" THEN {None} ELSE DOMAIN sections

\* how a client links a member: <<reference_member, reference_node>>
DocLinkInputs == LinkInputs \cup {<<None, n>> : n \in DOMAIN nodes}

NextDoc ==
    \/ /\ nodes = <<>>
       /\ \E id \in {None, 1} : NewSection(id, 1, 3, None)
    \/ /\ members = <<>>
       /\ \E i \in DocNodeInputs : NewNode(Len(nodes), i[1], i[2])
    \/ /\ membersets = <<>>
       /\ \E s \in DOMAIN nodes, e \in DOMAIN nodes, i \in DocMemberInputs,
             l \in DocLinkInputs :
             /\ s < e
             /\ \E sec \in DocSections(i[3]) :
                   NewMember(s, e, sec, None, i[1], i[2], None, l[1], l[2], i[3])
    \/ /\ AllAdded
       /\ \E ml \in MemberLists : NewMemberSet(ml)
    \/ /\ ~AllAdded
       /\ AddMemberSet(Len(membersets))
    \/ /\ AllAdded /\ membersets # <<>>
       /\ ToDict
    \/ /\ ret.op = "to_dict"
       /\ FromDict(ret.arg[1])

SpecDoc == Init /\ [][NextDoc]_vars

\* ------------------------------------------------------------ SpecRun
\* A client that builds a model, a chain of members from node to node, and runs
\* the analysis, at most MaxRuns times; a run that raised ends the script.
Ran == ret.op \in {"run_analysis", "run_analysis_from_file"}
\* the number of the next run, 0 when the script runs no more
NextRunNumber ==
    IF Building THEN 1
    ELSE IF Ran /\ ret.err = "" /\ ret.arg[1] < MaxRuns THEN ret.arg[1] + 1
    ELSE 0

NextRun ==
    \/ /\ members = <<>>
       /\ \E i \in DocNodeInputs : NewNode(Len(nodes), i[1], i[2])
    \/ /\ membersets = <<>>
       /\ \E s \in DOMAIN nodes, e \in DOMAIN nodes, i \in DocMemberInputs :
             /\ s = Len(members) + 1 /\ e = s + 1
             /\ \E sec \in DocSections(i[3]) :
                   NewMember(s, e, sec, None, i[1], i[2], None, None, None, i[3])
    \/ /\ AllAdded
       /\ \E ml \in MemberLists : NewMemberSet(ml)
    \/ /\ ~AllAdded
       /\ AddMemberSet(Len(membersets))
    \/ /\ AllAdded /\ NextRunNumber > 0
       /\ \E outcome \in SolverOutcomes : RunAnalysis(NextRunNumber, outcome)
    \/ /\ AllAdded /\ NextRunNumber > 0
       /\ \E outcome \in SolverOutcomes : RunAnalysisFromFile(NextRunNumber, outcome)
    \/ /\ AllAdded
       /\ \E kind \in CatalogKinds : GetUniqueTwice(kind)
    \/ /\ AllAdded
       /\ \E a \in DOMAIN membersets, b \in DOMAIN membersets :
             \/ CombineMemberSets(<<a>>)
             \/ CombineMemberSets(<<a, b>>)

SpecRun == Init /\ [][NextRun]_vars

\* ------------------------------------------------------------ SpecLoader
\* A client that loads node and member records one call after another, with
\* one nodes_by_id and one members_by_id map shared by all its calls.
\* node records: without an id, with id 1, with id 2
LoaderNodeRecords == {NodeRecord(None, 0), NodeRecord(1, 1), NodeRecord(2, 2)}
\* the links of a member record:
\* <<section, start_hinge, end_hinge, reference_member, reference_node, member_type>>
LoaderLinkInputs ==
    {<<None, None, None, None, None, "Rigid">>, <<1, 1, None, None, 1, "Normal">>,
     <<2, None, None, None, None, "Rigid">>, <<1, None, 2, None, None, "Normal">>,
     <<None, None, None, 2, None, "Rigid">>, <<None, None, None, None, 3, "Rigid">>}
\* a member record without its node keys
MemberRecordLinks(id, l) ==
    [id |-> id, section |-> l[1], rotation_angle |-> 0, start_hinge |-> l[2],
     end_hinge |-> l[3], classification |-> "", weight |-> None, chi |-> None,
     reference_member |-> l[4], reference_node |-> l[5], member_type |-> l[6]]
\* member records: the nodes embedded, or as bare ids
LoaderMemberRecords ==
    {MemberRecordLinks(id, l) @@ [start_node |-> NodeRecord(1, 1), end_node |-> e] :
        id \in {1, 2}, l \in LoaderLinkInputs, e \in LoaderNodeRecords} \cup
    {MemberRecordLinks(id, l) @@ [start_node_id |-> s, end_node |-> NodeRecord(2, 2)] :
        id \in {1, 2}, l \in LoaderLinkInputs, s \in {1, 3}} \cup
    {MemberRecordLinks(id, l) @@ [start_node |-> NodeRecord(1, 1), end_node_id |-> 2] :
        id \in {1, 2}, l \in LoaderLinkInputs}
\* (an exception ends the client's script)
LoaderBudget ==
    /\ Len(nodes) < MaxNodes
    /\ Len(members) < MaxMembers
    /\ ret.err = ""

NextLoader ==
    \/ /\ LoaderBudget
       /\ \E data \in LoaderNodeRecords : NodeGetOrCreateFromDict(data)
    \/ /\ LoaderBudget
       /\ \E data \in LoaderMemberRecords : MemberFromDict(data)

SpecLoader == Init /\ [][NextLoader]_vars

\* ------------------------------------------------------------ SpecTrip
\* A client that constructs nodes and members over the catalog of Init and
\* then sends one member through to_dict and Member.from_dict.
\* how the client fills a member: <<section, start_hinge, end_hinge, weight, member_type>>
TripMemberInputs ==
    {<<1, None, None, None, "NORMAL">>, <<1, 1, 1, 5, "TENSION">>,
     <<None, None, 1, None, "RIGID">>}
\* the round trip ends the client's script
TripBudget == ret.op # "Member.from_dict"

NextTrip ==
    \/ /\ TripBudget
       /\ \E id \in {None, 1}, nodal_support \in OptRef(supports) :
             NewNode(Len(nodes), id, nodal_support)
    \/ /\ TripBudget
       /\ \E s \in DOMAIN nodes, e \in DOMAIN nodes, id \in {None, 2},
             in \in TripMemberInputs :
             /\ s < e
             /\ NewMember(s, e, in[1], id, in[2], in[3], in[4], None, None, in[5])
    \/ /\ TripBudget
       /\ \E m \in DOMAIN members, nodes_by_id \in {<<>>, by_id(nodes, 0)},
             members_by_id \in {<<>>, by_id(members, 0)} :
             MemberRoundTrip(m, nodes_by_id, members_by_id)

SpecTrip == Init /\ [][NextTrip]_vars

\* ------------------------------------------------------------ SpecLoadDocs
\* A client that loads load cases and loads from records and constructs others
\* without an id, each load on the load case made last.
\* ids of the records: none, and two explicit ids
LoadedIds == {None, 2, 3}
\* the record of a load on the node or member with the given id
LoadRecord(id, on) ==
    [id |-> id, node |-> on, member |-> on, distribution_shape |-> Uniform,
     start_frac |-> 0, end_frac |-> 10]
\* load-case records: without loads, or with one load of a kind
LoadCaseRecords ==
    {[id |-> id, name |-> NoStr, nodal_loads |-> l[1], nodal_moments |-> l[2],
      distributed_loads |-> l[3]] :
        id \in LoadedIds,
        l \in {<<<<>>, <<>>, <<>>>>, <<<<LoadRecord(2, 1)>>, <<>>, <<>>>>,
               <<<<>>, <<LoadRecord(2, 1)>>, <<>>>>,
               <<<<>>, <<>>, <<LoadRecord(2, 1)>>>>}}

NextLoadDocs ==
    \/ /\ LoadBudget
       /\ NewLoadCase(NoStr, None)
    \/ /\ LoadBudget /\ loadcases # <<>>
       /\ NewNodalLoad(1, Len(loadcases))
    \/ /\ LoadBudget /\ loadcases # <<>>
       /\ NewNodalMoment(1, Len(loadcases))
    \/ /\ LoadBudget /\ loadcases # <<>>
       /\ NewDistributedLoad(1, Len(loadcases), Uniform, 0, 10, None)
    \/ /\ LoadBudget
       /\ \E data \in LoadCaseRecords : LoadCaseFromDict(data)
    \/ /\ LoadBudget /\ loadcases # <<>>
       /\ \E id \in LoadedIds, on \in {1, 9} :
             NodalLoadFromDict(LoadRecord(id, on), Len(loadcases))
    \/ /\ LoadBudget /\ loadcases # <<>>
       /\ \E id \in LoadedIds : NodalMomentFromDict(LoadRecord(id, 1), Len(loadcases))
    \/ /\ LoadBudget /\ loadcases # <<>>
       /\ \E id \in LoadedIds :
             DistributedLoadFromDict(LoadRecord(id, 1), Len(loadcases))

SpecLoadDocs == InitLoads /\ [][NextLoadDocs]_vars

\* ------------------------------------------------------------ SpecIds
\* A client that constructs entities with and without ids, catches the
\* exception of a construction that fails and goes on, and may reset the
\* counters in between.
\* id arguments: none, zero, a positive id
ZeroIdInputs == {None, 0, 2}
IdsObjects == CtorObjects + Len(nodalloads) + Len(combos)
\* (a failed Member(...) moves the counter, which bounds the failures)
IdsBudget ==
    /\ IdsObjects < Len(CtorNodes) + MaxObjects
    /\ counter.Member <= MaxObjects

NextIds ==
    \/ /\ IdsBudget
       /\ \E id \in ZeroIdInputs : NewNode(Len(nodes), id, None)
    \/ /\ IdsBudget
       /\ \E id \in ZeroIdInputs : NewMaterial(id, 2)
    \/ /\ IdsBudget
       /\ \E id \in ZeroIdInputs, m \in DOMAIN materials : NewSection(id, m, 3, None)
    \/ /\ IdsBudget
       /\ \E id \in ZeroIdInputs, section \in OptRef(sections),
             mt \in {"NORMAL", "RIGID"} :
             NewMember(1, 2, section, id, None, None, None, None, None, mt)
    \/ /\ IdsBudget
       /\ \E id \in ZeroIdInputs : NewLoadCase(NoStr, id)
    \/ /\ IdsBudget /\ loadcases # <<>>
       /\ NewNodalLoad(1, Len(loadcases))
    \/ /\ IdsBudget /\ loadcases # <<>>
       /\ NewLoadCombination(<<[lc |-> Len(loadcases), factor |-> 1]>>)
    \/ /\ IdsBudget /\ loadcases # <<>> /\ members # <<>>
       /\ \E id \in ZeroIdInputs, sf \in {0, 10}, ef \in {0, 10} :
             NewDistributedLoad(1, Len(loadcases), Uniform, sf, ef, id)
    \/ /\ IdsBudget /\ ret.op # "reset_counters"
       /\ ResetCounters

SpecIds == InitCtor /\ [][NextIds]_vars

\* ------------------------------------------------------------ SpecSupport
\* A client that constructs support conditions, one call after another.
\* stiffness arguments, in tenths: none, negative, zero, positive
StiffnessInputs == {None, 0 - 10, 0, 5}
\* raw types of a document: enum members and spellings
RawTypeInputs ==
    {[enum |-> TRUE, name |-> t, s |-> <<>>] : t \in {"FIXED", "SPRING"}} \cup
    {[enum |-> FALSE, name |-> "", s |-> t] :
        t \in {<<"F", "i", "x", "e", "d">>, <<"F", "R", "E", "E">>,
               <<" ", "s", "p", "r", "i", "n", "g", " ">>,
               <<"P", "o", "s", "i", "t", "i", "v", "e", "-", "o", "n", "l", "y">>,
               <<"P", "O", "S", "I", "T", "I", "V", "E", "_", "O", "N", "L", "Y">>,
               <<"n", "e", "g">>, <<"N", "e", "g", "_", "o", "n", "l", "y">>,
               <<"r", "i", "g", "i", "d">>}}
\* the documents from_dict gets: None, a dict without a type key, dicts with one
SupportDocs ==
    {[some |-> FALSE, key |-> "", raw |-> [enum |-> FALSE, name |-> "", s |-> <<>>],
      stiffness |-> None]} \cup
    {[some |-> TRUE, key |-> "", raw |-> [enum |-> FALSE, name |-> "", s |-> <<>>],
      stiffness |-> k] : k \in StiffnessInputs} \cup
    {[some |-> TRUE, key |-> key, raw |-> raw, stiffness |-> k] :
        key \in {"condition_type", "type"}, raw \in RawTypeInputs, k \in StiffnessInputs}

NextSupport ==
    \/ \E t \in SupportConditionTypes, k \in StiffnessInputs : NewSupportCondition(t, k)
    \/ \E f \in {"fixed", "free"} : SupportConditionFactory(f, None)
    \/ \E f \in {"spring", "positive_only", "negative_only"}, k \in StiffnessInputs :
          SupportConditionFactory(f, k)
    \/ \E data \in SupportDocs : SupportConditionFromDict(data)

SpecSupport == InitEmpty /\ [][NextSupport]_vars

\* ------------------------------------------------------------ properties of Spec
\* the last operation was create_combined_model_pattern and it returned
PatternReturned == ret.op = "create_combined_model_pattern" /\ ret.err = ""
\* member_mapping as the returned pattern left it: [key, list] per original member
PatternMapping == ret.arg[3]
\* every member object made by the pattern
PatternReplicas == UNION {Range(PatternMapping[k].list) : k \in DOMAIN PatternMapping}

\* C1: in the aggregate returned by create_combined_model_pattern, the replica
\* at index i of a member B whose reference_member is the original member A
\* has the replica of A at the same index i as its reference_member.
C1_ReplicaReferenceSameIndex ==
    PatternReturned =>
        \A b \in DOMAIN PatternMapping, a \in DOMAIN PatternMapping :
            members[PatternMapping[b].key].reference_member = PatternMapping[a].key =>
                \A i \in DOMAIN PatternMapping[b].list :
                    members[PatternMapping[b].list[i]].reference_member
                        = PatternMapping[a].list[i]

\* C10: create_combined_model_pattern never returns a replica of a member with
\* a reference_member or a reference_node whose own link is None or points
\* outside the replicas: an unresolved link makes the operation fail.
C10_UnresolvedLinkFails ==
    PatternReturned =>
        \A k \in DOMAIN PatternMapping : \A x \in Range(PatternMapping[k].list) :
            /\ members[PatternMapping[k].key].reference_member # None
                  => members[x].reference_member \in PatternReplicas
            /\ members[PatternMapping[k].key].reference_node # None
                  => /\ members[x].reference_node # None
                     /\ members[x].reference_node
                            \notin Range(get_all_nodes(World, ret.src))

\* the last operation was translate_model and it returned
TranslateReturned == ret.op = "translate_model" /\ ret.err = ""
\* the member objects of member set k of the source and of the returned model
SourceSet(k) == membersets[models[ret.src].member_sets[k]].members
TranslatedSet(k) == membersets[models[ret.obj].member_sets[k]].members
\* the node objects that existed before translate_model ran
SourceNodes == Range(get_all_nodes(World, ret.src))
\* <<set, position, end>> of every member end of the source model
MemberEnds ==
    {<<k, j, e>> \in (DOMAIN models[ret.src].member_sets) \X (1..MaxMembers)
                      \X {"start_node", "end_node"} : j \in DOMAIN SourceSet(k)}

\* C9: translate_model returns one member set per source member set and one
\* member per source member in the same order; each new member's end nodes are
\* new Node objects at the source coordinates plus v, shared exactly when the
\* source ends share a node id; section and hinges are the source's objects.
C9_TranslateModel ==
    TranslateReturned =>
        /\ Len(models[ret.obj].member_sets) = Len(models[ret.src].member_sets)
        /\ \A k \in DOMAIN models[ret.src].member_sets :
              Len(TranslatedSet(k)) = Len(SourceSet(k))
        /\ \A p \in MemberEnds :
              LET old == members[SourceSet(p[1])[p[2]]]
                  new == members[TranslatedSet(p[1])[p[2]]]
              IN  /\ new[p[3]] \notin SourceNodes
                  /\ nodes[new[p[3]]].X = nodes[old[p[3]]].X + ret.arg[1][1]
                  /\ nodes[new[p[3]]].Y = nodes[old[p[3]]].Y + ret.arg[1][2]
                  /\ nodes[new[p[3]]].Z = nodes[old[p[3]]].Z + ret.arg[1][3]
                  /\ new.section = old.section
                  /\ new.start_hinge = old.start_hinge
                  /\ new.end_hinge = old.end_hinge
        /\ \A p \in MemberEnds, q \in MemberEnds :
              (members[TranslatedSet(p[1])[p[2]]][p[3]]
                    = members[TranslatedSet(q[1])[q[2]]][q[3]])
              <=> (nodes[members[SourceSet(p[1])[p[2]]][p[3]]].id
                    = nodes[members[SourceSet(q[1])[q[2]]][q[3]]].id)

\* ------------------------------------------------------------ properties of SpecCtor
\* C2: for every kind whose constructor accepts an id, the kind's counter is
\* past every id carried by an entity of that kind, so an id supplied
\* explicitly is never handed out again by auto-assignment.
C2_CounterPastExplicitIds ==
    /\ \A i \in DOMAIN nodes : nodes[i].id < counter.Node
    /\ \A i \in DOMAIN members : members[i].id < counter.Member
    /\ \A i \in DOMAIN sections : sections[i].id < counter.Section
    /\ \A i \in DOMAIN materials : materials[i].id < counter.Material
    /\ \A i \in DOMAIN shapes : shapes[i].id < counter.ShapePath
    /\ \A i \in DOMAIN supports : supports[i].id < counter.NodalSupport
    /\ \A i \in DOMAIN loadcases : loadcases[i].id < counter.LoadCase
    /\ \A i \in DOMAIN impcases :
          impcases[i].imperfection_case_id < counter.ImperfectionCase
    /\ \A i \in DOMAIN distloads : distloads[i].id < counter.DistributedLoad

\* the last operation was Member(...) called with section=None
SectionlessMemberCall == ret.op = "Member" /\ ret.arg[2] = None
\* ... and with a member_type that normalizes to RIGID
SectionlessRigidCall ==
    SectionlessMemberCall /\ normalize_member_type(ret.arg[3]) = "RIGID"

\* C8 as stated: Member(section=None) raises for NORMAL and TENSION, and for
\* RIGID it returns a member whose weight is 0.
C8_SectionlessRigidWeightZero ==
    SectionlessMemberCall =>
        IF SectionlessRigidCall
        THEN ret.err = "" /\ members[ret.obj].weight = 0
        ELSE ret.err = "ValueError" /\ ret.obj = None

\* C8, amended: Member(section=None) raises for NORMAL and TENSION, and for
\* RIGID it returns a member whose weight is the weight argument when one is
\* passed and 0 when none is.
C8_SectionlessMember ==
    SectionlessMemberCall =>
        IF SectionlessRigidCall
        THEN /\ ret.err = ""
             /\ members[ret.obj].section = None
             /\ members[ret.obj].weight = (IF ret.arg[4] = None THEN 0 ELSE ret.arg[4])
        ELSE ret.err = "ValueError" /\ ret.obj = None

\* a RIGID member was built without a section and without a weight argument
C8_Witness ==
    /\ SectionlessRigidCall
    /\ ret.arg[4] = None
    /\ ret.err = ""
    /\ members[ret.obj].weight = 0
    /\ Member_length(World, members[ret.obj].start_node, members[ret.obj].end_node) > 0

\* ------------------------------------------------------------ properties of SpecLoads
\* how often x occurs in seq
Occurrences(seq, x) == Cardinality({i \in DOMAIN seq : seq[i] = x})
\* every LoadCase but L is as it was before the step
OtherLoadCasesUnchanged(L) ==
    /\ DOMAIN loadcases' = DOMAIN loadcases
    /\ \A o \in DOMAIN loadcases : o # L => loadcases'[o] = loadcases[o]

\* C5: a step that constructs a NodalLoad, NodalMoment or DistributedLoad with
\* load_case L appends the new load at the end of L's list of that kind, where
\* it then occurs exactly once, and changes no list of any other LoadCase.
C5_LoadRegistersOnce ==
    [][/\ Len(nodalloads') > Len(nodalloads) =>
            LET new == Len(nodalloads')
                L   == nodalloads'[new].load_case
            IN  /\ loadcases'[L].nodal_loads = Append(loadcases[L].nodal_loads, new)
                /\ Occurrences(loadcases'[L].nodal_loads, new) = 1
                /\ OtherLoadCasesUnchanged(L)
       /\ Len(nodalmoments') > Len(nodalmoments) =>
            LET new == Len(nodalmoments')
                L   == nodalmoments'[new].load_case
            IN  /\ loadcases'[L].nodal_moments = Append(loadcases[L].nodal_moments, new)
                /\ Occurrences(loadcases'[L].nodal_moments, new) = 1
                /\ OtherLoadCasesUnchanged(L)
       /\ Len(distloads') > Len(distloads) =>
            LET new == Len(distloads')
                L   == distloads'[new].load_case
            IN  /\ loadcases'[L].distributed_loads
                       = Append(loadcases[L].distributed_loads, new)
                /\ Occurrences(loadcases'[L].distributed_loads, new) = 1
                /\ OtherLoadCasesUnchanged(L)
      ]_vars

\* a load was constructed on one of several load cases and is the only load
\* that load case holds
C5_Witness ==
    /\ ret.op \in {"NodalLoad", "NodalMoment", "DistributedLoad"}
    /\ ret.err = ""
    /\ Len(loadcases) > 1
    /\ Len(loadcases[ret.src].nodal_loads) + Len(loadcases[ret.src].nodal_moments)
           + Len(loadcases[ret.src].distributed_loads) = 1

\* the id a key stands for: the int itself, the value of an all-digit string
KeyId(key) ==
    IF key.kind = "int" THEN key.n
    ELSE IF isdigit(key.s) THEN int_of_str(key.s) ELSE None
\* some load case of the collection has the id the key stands for
IdMatches(key, coll) ==
    KeyId(key) # None /\ \E c \in Range(coll) : loadcases[c].id = KeyId(key)
\* some load case of the collection has the key as its name
NameMatches(key, coll) == \E c \in Range(coll) : loadcases[c].name = str_of_key(key)
\* lc is a right resolution of key: by id when an id matches, else by name
ResolvedRight(key, coll, lc) ==
    /\ lc \in Range(coll)
    /\ IF IdMatches(key, coll) THEN loadcases[lc].id = KeyId(key)
       ELSE loadcases[lc].name = str_of_key(key)
\* the positions of raw_factors whose key matches neither an id nor a name
Unresolved(raw_factors, coll) ==
    {i \in DOMAIN raw_factors :
        ~IdMatches(raw_factors[i].key, coll) /\ ~NameMatches(raw_factors[i].key, coll)}

\* C6: LoadCombination.from_dict resolves every key of load_cases_factors to a
\* LoadCase of the supplied collection, by id when an id matches and by name
\* otherwise; when a key matches neither it raises KeyError for that key, and
\* no LoadCombination is created and no counter advanced.
C6_FromDictResolution ==
    [][ret'.op = "LoadCombination.from_dict" =>
          LET raw  == ret'.arg[1].load_cases_factors
              coll == ret'.arg[2]
          IN  IF Unresolved(raw, coll) = {}
              THEN /\ ret'.err # "KeyError"
                   /\ \A i \in DOMAIN raw : \E j \in DOMAIN ret'.arg[4] :
                         ResolvedRight(raw[i].key, coll, ret'.arg[4][j].lc)
                   /\ \A j \in DOMAIN ret'.arg[4] : \E i \in DOMAIN raw :
                         ResolvedRight(raw[i].key, coll, ret'.arg[4][j].lc)
              ELSE /\ ret'.err = "KeyError"
                   /\ \E i \in Unresolved(raw, coll) :
                         /\ \A k \in Unresolved(raw, coll) : i <= k
                         /\ ret'.arg[3] = Str(str_of_key(raw[i].key))
                   /\ combos' = combos
                   /\ counter' = counter
      ]_vars

\* from_dict raised KeyError for the second key after resolving the first by
\* id although another load case of the collection carries the key as its name
C6_Witness ==
    /\ ret.op = "LoadCombination.from_dict"
    /\ ret.err = "KeyError"
    /\ Len(ret.arg[1].load_cases_factors) = 2
    /\ Len(ret.arg[4]) = 1
    /\ IdMatches(ret.arg[1].load_cases_factors[1].key, ret.arg[2])
    /\ NameMatches(ret.arg[1].load_cases_factors[1].key, ret.arg[2])
    /\ loadcases[ret.arg[4][1].lc].name # str_of_key(ret.arg[1].load_cases_factors[1].key)

\* the document is c.to_dict() of the combination c, with the int keys to_dict emits
IsDictOf(data, c) ==
    /\ data.id = LoadCombination_to_dict(c).id
    /\ data.load_cases_factors =
           [k \in DOMAIN LoadCombination_to_dict(c).load_cases_factors |->
               [key |-> IntKey(LoadCombination_to_dict(c).load_cases_factors[k].key),
                factor |-> LoadCombination_to_dict(c).load_cases_factors[k].factor]]
\* the collection holds every load case of the combination c
HoldsLoadCases(coll, c) ==
    \A k \in DOMAIN combos[c].load_cases_factors :
        combos[c].load_cases_factors[k].lc \in Range(coll)

\* C24: for a combination c and a collection holding all of c's load cases,
\* LoadCombination.from_dict(c.to_dict(), load_cases=collection) returns a
\* LoadCombination with c's id and c's mapping of LoadCase objects to factors.
C24_CombinationRoundTrip ==
    \A c \in DOMAIN combos :
        (/\ ret.op = "LoadCombination.from_dict"
         /\ IsDictOf(ret.arg[1], c)
         /\ HoldsLoadCases(ret.arg[2], c))
            => /\ ret.err = ""
               /\ ret.obj \in DOMAIN combos
               /\ combos[ret.obj].id = combos[c].id
               /\ combos[ret.obj].load_cases_factors = combos[c].load_cases_factors

\* the last operation was DistributedLoad(...) with a distribution_shape that
\* is an enum member or the name of one
DistributedLoadCall ==
    /\ ret.op = "DistributedLoad"
    /\ ret.arg[1].enum \/ ret.arg[1].name \in DistributionShapes

\* C7 as stated: DistributedLoad(...) succeeds exactly when
\* 0 <= start_frac <= end_frac <= 1 (fractions in tenths), and raises otherwise.
C7_FractionsOrdered ==
    DistributedLoadCall =>
        (ret.err = "" <=> (0 <= ret.arg[2] /\ ret.arg[2] <= ret.arg[3] /\ ret.arg[3] <= 10))

\* C7, amended: with a valid distribution_shape, DistributedLoad(...) succeeds
\* exactly when 0 <= start_frac < end_frac <= 1, and raises ValueError
\* otherwise, equal fractions included.
C7_FractionsStrictlyOrdered ==
    DistributedLoadCall =>
        IF 0 <= ret.arg[2] /\ ret.arg[2] < ret.arg[3] /\ ret.arg[3] <= 10
        THEN /\ ret.err = ""
             /\ distloads[ret.obj].start_frac = ret.arg[2]
             /\ distloads[ret.obj].end_frac = ret.arg[3]
        ELSE /\ ret.err \in {"ValueError: range", "ValueError: order"}
             /\ ret.obj = None

\* DistributedLoad(...) was refused for start_frac = end_frac inside [0, 1]
C7_Witness ==
    /\ DistributedLoadCall
    /\ ret.arg[2] = ret.arg[3]
    /\ 0 <= ret.arg[2] /\ ret.arg[3] <= 10
    /\ ret.err = "ValueError: order"

\* ------------------------------------------------------------ properties of SpecDoc
\* the objects of each kind reachable from the member sets of a model
ReachMembers(model) ==
    LET ms == Range(ModelMembers(World, model))
    IN  ms \cup ({members[m].reference_member : m \in ms} \ {None})
EndNodes(model) ==
    UNION {{members[m].start_node, members[m].end_node} :
               m \in Range(ModelMembers(World, model))}
ReachNodes(model) ==
    EndNodes(model)
        \cup ({members[m].reference_node : m \in Range(ModelMembers(World, model))}
                  \ {None})
ReachSections(model) ==
    {members[m].section : m \in Range(ModelMembers(World, model))} \ {None}
ReachMaterials(model) == {sections[s].material : s \in ReachSections(model)}
ReachShapePaths(model) == {sections[s].shape_path : s \in ReachSections(model)} \ {None}
ReachHinges(model) ==
    UNION {{members[m].start_hinge, members[m].end_hinge} :
               m \in Range(ModelMembers(World, model))} \ {None}
ReachSupports(model) == {nodes[n].nodal_support : n \in EndNodes(model)} \ {None}

\* the member records of a document, in document order
DocMembers(doc) == Flatten([k \in DOMAIN doc.member_sets |-> doc.member_sets[k].members])
\* the ids an array of records carries
Ids(records) == {records[i].id : i \in DOMAIN records}

DocReturned == ret.op = "to_dict"

\* C4: in the document of FERS.to_dict() every catalog array has exactly one
\* entry per catalog object reachable from the member sets, the entry being
\* that object's record, and every catalog id that a member record or an
\* embedded node record mentions is the id of an entry of the matching array.
C4_CatalogArrays ==
    DocReturned =>
        LET doc == ret.arg[1]
            one(array, objects, to_dict(_)) ==
                /\ Len(array) = Cardinality(objects)
                /\ \A o \in objects : \E i \in DOMAIN array : array[i] = to_dict(o)
            recs == DocMembers(doc)
        IN  /\ one(doc.materials, ReachMaterials(1), Material_to_dict)
            /\ one(doc.sections, ReachSections(1), Section_to_dict)
            /\ one(doc.nodal_supports, ReachSupports(1), NodalSupport_to_dict)
            /\ one(doc.memberhinges, ReachHinges(1), MemberHinge_to_dict)
            /\ one(doc.shape_paths, ReachShapePaths(1), ShapePath_to_dict)
            /\ \A k \in DOMAIN recs :
                  /\ recs[k].section \in Ids(doc.sections) \cup {None}
                  /\ recs[k].start_hinge \in Ids(doc.memberhinges) \cup {None}
                  /\ recs[k].end_hinge \in Ids(doc.memberhinges) \cup {None}
                  /\ recs[k].start_node.nodal_support
                         \in Ids(doc.nodal_supports) \cup {None}
                  /\ recs[k].end_node.nodal_support
                         \in Ids(doc.nodal_supports) \cup {None}
            /\ \A i \in DOMAIN doc.sections :
                  doc.sections[i].material \in Ids(doc.materials)

RoundTripReturned == ret.op = "from_dict"

\* two catalog objects, or two absent ones, with the same ids and scalars
SupportAlike(a, b) == (a = None) = (b = None) /\ (a # None => supports[a] = supports[b])
HingeAlike(a, b) == (a = None) = (b = None) /\ (a # None => hinges[a] = hinges[b])
SectionAlike(a, b) ==
    /\ (a = None) = (b = None)
    /\ a # None =>
          /\ sections[a].id = sections[b].id /\ sections[a].area = sections[b].area
          /\ materials[sections[a].material] = materials[sections[b].material]
          /\ (sections[a].shape_path = None) = (sections[b].shape_path = None)
\* two nodes, or two absent ones, with the same id, coordinates and support
NodeAlike(a, b) ==
    /\ (a = None) = (b = None)
    /\ a # None =>
          /\ [nodes[a] EXCEPT !.nodal_support = None]
                 = [nodes[b] EXCEPT !.nodal_support = None]
          /\ SupportAlike(nodes[a].nodal_support, nodes[b].nodal_support)
\* two members with the same id and scalars whose parts are alike
MemberAlike(a, b) ==
    /\ members[a].id = members[b].id
    /\ members[a].member_type = members[b].member_type
    /\ members[a].weight = members[b].weight
    /\ members[a].classification = members[b].classification
    /\ members[a].rotation_angle = members[b].rotation_angle
    /\ members[a].chi = members[b].chi
    /\ NodeAlike(members[a].start_node, members[b].start_node)
    /\ NodeAlike(members[a].end_node, members[b].end_node)
    /\ NodeAlike(members[a].reference_node, members[b].reference_node)
    /\ SectionAlike(members[a].section, members[b].section)
    /\ HingeAlike(members[a].start_hinge, members[b].start_hinge)
    /\ HingeAlike(members[a].end_hinge, members[b].end_hinge)
    /\ (members[a].reference_member = None) = (members[b].reference_member = None)
    /\ members[a].reference_member # None =>
          members[members[a].reference_member].id
              = members[members[b].reference_member].id

\* every slot of every member of a model that holds an object of one kind
NodeSlots(model) ==
    LET ms == ModelMembers(World, model)
    IN  Flatten([k \in DOMAIN ms |-> <<members[ms[k]].start_node, members[ms[k]].end_node,
                                      members[ms[k]].reference_node>>])
SectionSlots(model) ==
    LET ms == ModelMembers(World, model)
    IN  [k \in DOMAIN ms |-> members[ms[k]].section]
HingeSlots(model) ==
    LET ms == ModelMembers(World, model)
    IN  Flatten([k \in DOMAIN ms |-> <<members[ms[k]].start_hinge, members[ms[k]].end_hinge>>])
SupportSlots(model) ==
    LET ns == NodeSlots(model)
    IN  [k \in DOMAIN ns |-> IF ns[k] = None THEN None ELSE nodes[ns[k]].nodal_support]
MemberSlots(model) ==
    LET ms == ModelMembers(World, model)
    IN  ms \o [k \in DOMAIN ms |-> members[ms[k]].reference_member]
\* two slot lists share objects in the same way
SameSharing(s, t) ==
    /\ Len(s) = Len(t)
    /\ \A i \in DOMAIN s, j \in DOMAIN s : (s[i] = s[j]) = (t[i] = t[j])

\* the graph of model b is isomorphic to the graph of model a
SameGraph(a, b) ==
    LET sa == models[a].member_sets
        sb == models[b].member_sets
        ma == ModelMembers(World, a)
        mb == ModelMembers(World, b)
    IN  /\ Len(sa) = Len(sb)
        /\ \A k \in DOMAIN sa :
              /\ membersets[sa[k]].memberset_id = membersets[sb[k]].memberset_id
              /\ membersets[sa[k]].classification = membersets[sb[k]].classification
              /\ Len(membersets[sa[k]].members) = Len(membersets[sb[k]].members)
        /\ \A k \in DOMAIN ma : MemberAlike(ma[k], mb[k])
        /\ SameSharing(NodeSlots(a), NodeSlots(b))
        /\ SameSharing(SectionSlots(a), SectionSlots(b))
        /\ SameSharing(HingeSlots(a), HingeSlots(b))
        /\ SameSharing(SupportSlots(a), SupportSlots(b))
        /\ SameSharing(MemberSlots(a), MemberSlots(b))
        /\ Cardinality(ReachMembers(a)) = Cardinality(ReachMembers(b))
        /\ Cardinality(ReachNodes(a)) = Cardinality(ReachNodes(b))
        /\ Cardinality(ReachSections(a)) = Cardinality(ReachSections(b))
        /\ Cardinality(ReachMaterials(a)) = Cardinality(ReachMaterials(b))
        /\ Cardinality(ReachHinges(a)) = Cardinality(ReachHinges(b))
        /\ Cardinality(ReachSupports(a)) = Cardinality(ReachSupports(b))

\* C3: from_dict(to_dict(M)) succeeds and returns a graph isomorphic to M:
\* the same number of entities per kind, the same ids and scalar values, and
\* the same sharing of sections, materials, supports, hinges and nodes.
C3_RoundTripIsomorphic ==
    RoundTripReturned => ret.err = "" /\ SameGraph(ret.src, ret.obj)

\* C12: when FERS.reset_counters() returns, the id counter of every entity
\* kind is at its initial value 1.
C12_ResetCountersAll ==
    ret.op = "reset_counters" => counter = InitialCounters

\* C16: Member(...) called with a start node and an end node of identical
\* coordinates raises a validation error and constructs no member.
C16_ZeroLengthRejected ==
    (/\ ret.op = "Member"
     /\ nodes[ret.arg[5]].X = nodes[ret.arg[6]].X
     /\ nodes[ret.arg[5]].Y = nodes[ret.arg[6]].Y
     /\ nodes[ret.arg[5]].Z = nodes[ret.arg[6]].Z)
        => ret.err = "ValueError" /\ ret.obj = None

\* the load cases a combination of the client's aggregate refers to without
\* their being load cases of the aggregate
DanglingLoadCases ==
    {f.lc : f \in UNION {Range(combos[c].load_cases_factors) :
                            c \in Range(models[1].load_combinations)}}
        \ Range(models[1].load_cases)

\* C17: FERS.to_dict() fails when a load combination of the aggregate refers to
\* a load case that is not in the aggregate, and in the document of a call
\* that succeeds every key of a combination's load_cases_factors is the id of
\* an entry of the load_cases array.
C17_CombinationKeysResolve ==
    DocReturned =>
        /\ DanglingLoadCases # {} => ret.err # ""
        /\ ret.err = "" =>
              \A c \in Range(ret.arg[1].load_combinations) :
                  \A f \in Range(c.load_cases_factors) :
                      f.key \in Ids(ret.arg[1].load_cases)

\* ------------------------------------------------------------ properties of SpecLoader
\* the links of a member record whose id the supplied map lacks
MissingLinks(data, maps) ==
    {k \in {"section", "start_hinge", "end_hinge", "reference_member", "reference_node"} :
        /\ data[k] # None
        /\ data[k] \notin
               DOMAIN (CASE k = "section" -> ClientCatalog.sections_by_id
                         [] k \in {"start_hinge", "end_hinge"} -> ClientCatalog.hinges_by_id
                         [] k = "reference_member" -> maps.members_by_id
                         [] k = "reference_node" -> maps.nodes_by_id)}

\* C18: Member.from_dict raises a lookup error whenever the record's section,
\* start_hinge, end_hinge, reference_member or reference_node id is not in the
\* supplied id maps; it never returns a member with that link set to None.
C18_MissingLinkRaises ==
    (ret.op = "Member.from_dict" /\ MissingLinks(ret.arg[2], ret.arg[1]) # {})
        => ret.err \in {"KeyError", "LookupError"}

\* C19: across the loader calls that share one nodes_by_id map at most one
\* Node instance is created per node id, and the map's entry for an id, once
\* made, is never replaced.
C19_OneNodePerId ==
    /\ \A i \in DOMAIN nodes, j \in DOMAIN nodes : nodes[i].id = nodes[j].id => i = j
    /\ ret.op \in LoaderCalls =>
          \A k \in DOMAIN ret.arg[3] : ret.arg[1].nodes_by_id[k] = ret.arg[3][k]

\* ------------------------------------------------------------ properties of SpecTrip
\* the node new has the id and the coordinates of the node old
SameNode(new, old) ==
    /\ nodes[new].id = nodes[old].id
    /\ nodes[new].X = nodes[old].X
    /\ nodes[new].Y = nodes[old].Y
    /\ nodes[new].Z = nodes[old].Z
\* the object registered in an id map for the object ref of a heap (None for None)
Registered(id_map, heap, ref) == IF ref = None THEN None ELSE id_map[heap[ref].id]

\* C27: Member.from_dict(m.to_dict(), ...) with the section and hinges of m
\* registered in the id maps returns a member with m's id, end nodes with the
\* ids and coordinates of m's, the registered section and hinge objects, m's
\* classification, rotation_angle, weight, chi and member_type, and registers
\* it in members_by_id under its id unless that id is registered already.
C27_MemberRoundTrip ==
    (ret.op = "Member.from_dict" /\ ret.src # None) =>
        /\ ret.err = ""
        /\ members[ret.obj].id = members[ret.src].id
        /\ SameNode(members[ret.obj].start_node, members[ret.src].start_node)
        /\ SameNode(members[ret.obj].end_node, members[ret.src].end_node)
        /\ members[ret.obj].section
               = Registered(ClientCatalog.sections_by_id, sections,
                            members[ret.src].section)
        /\ members[ret.obj].start_hinge
               = Registered(ClientCatalog.hinges_by_id, hinges,
                            members[ret.src].start_hinge)
        /\ members[ret.obj].end_hinge
               = Registered(ClientCatalog.hinges_by_id, hinges,
                            members[ret.src].end_hinge)
        /\ members[ret.obj].classification = members[ret.src].classification
        /\ members[ret.obj].rotation_angle = members[ret.src].rotation_angle
        /\ members[ret.obj].weight = members[ret.src].weight
        /\ members[ret.obj].chi = members[ret.src].chi
        /\ members[ret.obj].member_type = members[ret.src].member_type
        /\ ret.arg[1].members_by_id
               = setdefault(ret.arg[4], members[ret.src].id, ret.obj)

\* ------------------------------------------------------------ properties of SpecLoadDocs
\* the heap and the counter of the kind a from_dict call loads
LoadedKind ==
    CASE ret.op = "NodalLoad.from_dict" ->
             [heap |-> nodalloads, counter |-> counter.NodalLoad]
      [] ret.op = "NodalMoment.from_dict" ->
             [heap |-> nodalmoments, counter |-> counter.NodalMoment]
      [] ret.op = "DistributedLoad.from_dict" ->
             [heap |-> distloads, counter |-> counter.DistributedLoad]
      [] ret.op = "LoadCase.from_dict" ->
             [heap |-> loadcases, counter |-> counter.LoadCase]
      [] OTHER -> [heap |-> <<>>, counter |-> 0]

\* a from_dict of a load or load case has returned the entity of a record that
\* carried an explicit id
LoadedWithId == LoadedKind.heap # <<>> /\ ret.err = "" /\ ret.arg[1] # None

RebuiltOnce(list, heap, records) ==
    /\ Len(list) = Len(records)
    /\ \A j \in DOMAIN list, k \in DOMAIN list : list[j] = list[k] => j = k
    /\ \A k \in DOMAIN list : k \in DOMAIN records => heap[list[k]].id = records[k].id

\* C26: LoadCase.from_dict of the document of a load case returns a load case
\* with the document's id and with exactly as many nodal loads, nodal moments
\* and distributed loads as the document, each rebuilt load once in its list
\* and with the id of its record.
C26_LoadCaseRoundTrip ==
    (ret.op = "LoadCase.from_dict" /\ ret.err = "" /\ ret.arg[1] # None) =>
        /\ loadcases[ret.obj].id = ret.arg[2].id
        /\ RebuiltOnce(loadcases[ret.obj].nodal_loads, nodalloads,
                       ret.arg[2].nodal_loads)
        /\ RebuiltOnce(loadcases[ret.obj].nodal_moments, nodalmoments,
                       ret.arg[2].nodal_moments)
        /\ RebuiltOnce(loadcases[ret.obj].distributed_loads, distloads,
                       ret.arg[2].distributed_loads)

\* ------------------------------------------------ properties of Spec, the pattern
\* the number of member sets of the model the pattern was made from
PatternSets == Len(models[ret.src].member_sets)
\* the member set of the returned aggregate for original set k at index i
\* (i = 0: the place of the original itself)
PatternSet(i, k) == models[ret.obj].member_sets[i * PatternSets + k]

\* the returned aggregate of create_combined_model_pattern(model, count, spacing)
PatternStructure ==
    /\ Len(models[ret.obj].member_sets) = ret.arg[1] * PatternSets
    /\ \A k \in 1..PatternSets : PatternSet(0, k) = models[ret.src].member_sets[k]
    /\ \A i \in 1..(ret.arg[1] - 1), k \in 1..PatternSets :
          LET new == membersets[PatternSet(i, k)]
              old == membersets[PatternSet(0, k)]
          IN  /\ PatternSet(i, k) \notin Range(models[ret.src].member_sets)
              /\ new.classification = old.classification
              /\ new.l_y = old.l_y /\ new.l_z = old.l_z
              /\ Len(new.members) = Len(old.members)
              /\ \A j \in DOMAIN old.members, e \in {"start_node", "end_node"} :
                    LET n == nodes[members[new.members[j]][e]]
                        o == nodes[members[old.members[j]][e]]
                    IN  <<n.X, n.Y, n.Z>> = pattern_coords(o, i, ret.arg[2])

\* C23: create_combined_model_pattern(model, count, spacing) returns an
\* aggregate with the original member-set objects first and then, for each
\* i = 1..count-1 in order, one new member set per original set with the same
\* classification, l_y, l_z and number of members, its nodes at the original
\* coordinates plus i times spacing; no original member, node or member set is
\* modified.
C23_PatternStructure ==
    [][(ret'.op = "create_combined_model_pattern" /\ ret'.err = "") =>
          /\ PatternStructure'
          /\ \A x \in DOMAIN nodes : nodes'[x] = nodes[x]
          /\ \A x \in DOMAIN members : members'[x] = members[x]
          /\ \A x \in DOMAIN membersets : membersets'[x] = membersets[x]]_vars

\* distinct objects carry distinct ids
DistinctIds(heap, objs) == \A a \in objs, b \in objs : heap[a].id = heap[b].id => a = b

\* C25: in the aggregate returned by create_combined_model_pattern for a model
\* whose own nodes and members have distinct ids, distinct nodes have distinct
\* ids and distinct members have distinct ids, and get_all_nodes() and
\* get_all_members() return count times as many entities as for the original.
C25_PatternIdsDistinct ==
    (/\ PatternReturned
     /\ DistinctIds(nodes, EndNodes(ret.src))
     /\ DistinctIds(members, Range(ModelMembers(World, ret.src))))
        => /\ DistinctIds(nodes, EndNodes(ret.obj))
           /\ DistinctIds(members, Range(ModelMembers(World, ret.obj)))
           /\ Len(get_all_nodes(World, ret.obj))
                  = ret.arg[1] * Len(get_all_nodes(World, ret.src))
           /\ Len(get_all_members(World, ret.obj))
                  = ret.arg[1] * Len(get_all_members(World, ret.src))

\* C28: create_combined_model_pattern does not fail on the section rule, and
\* every replica has the member_type of the member it replicates, a sectionless
\* RIGID member being replicated as a sectionless RIGID member.
C28_ReplicaKeepsMemberType ==
    ret.op = "create_combined_model_pattern" =>
        /\ ret.err # "ValueError"
        /\ ret.err = "" =>
              \A k \in DOMAIN PatternMapping : \A x \in Range(PatternMapping[k].list) :
                  /\ members[x].member_type = members[PatternMapping[k].key].member_type
                  /\ members[x].section = members[PatternMapping[k].key].section

IdAsSupplied(new_id, id, c) == new_id = IF id # None THEN id ELSE c

\* C21: a constructed entity carries the caller-supplied id, whatever integer
\* it is (0 included), and the current value of its kind's counter only when
\* no id is supplied.
C21_IdAsSupplied ==
    [][ret'.err = "" =>
          /\ ret'.op = "Node" =>
                IdAsSupplied(nodes'[ret'.obj].id, ret'.arg[1], counter.Node)
          /\ ret'.op = "Member" =>
                IdAsSupplied(members'[ret'.obj].id, ret'.arg[1], counter.Member)
          /\ ret'.op = "LoadCase" =>
                IdAsSupplied(loadcases'[ret'.obj].id, ret'.arg[1], counter.LoadCase)
          /\ ret'.op = "Material" =>
                IdAsSupplied(materials'[ret'.obj].id, ret'.arg[1], counter.Material)
          /\ ret'.op = "Section" =>
                IdAsSupplied(sections'[ret'.obj].id, ret'.arg[1], counter.Section)
          /\ ret'.op = "DistributedLoad" =>
                IdAsSupplied(distloads'[ret'.obj].id, ret'.arg[4],
                             counter.DistributedLoad)]_vars

\* a construction without an id takes the counter's value c and leaves c + 1
TakesCounter(new_id, c, c_after) == new_id = c /\ c_after = c + 1

C30_FailedConstructionNoEffect ==
    [][((ret'.op = "Member" /\ ret'.err = "ValueError")
        \/ (ret'.op = "DistributedLoad"
            /\ ret'.err \in {"ValueError: range", "ValueError: order"}))
          => /\ counter' = counter
             /\ all_members' = all_members
             /\ members' = members
             /\ loadcases' = loadcases
             /\ distloads' = distloads]_vars

\* ------------------------------------------------------------ properties of SpecRun
\* C11: a run whose solver call fails raises RuntimeError, a run whose answer
\* cannot be parsed or validated raises ValueError, and in both cases the
\* aggregate's results stay as they were; results are assigned only by a run
\* whose solver call and validation both succeeded.
C11_FailedRunAssignsNothing ==
    [][ (ret'.op \in {"run_analysis", "run_analysis_from_file"} /\ ret' # ret) =>
            LET outcome == ret'.arg[2]
            IN  /\ (outcome = "raises") = (ret'.err = "RuntimeError")
                /\ (outcome \in {"unparsable", "invalid"}) = (ret'.err = "ValueError")
                /\ (outcome = "valid") = (ret'.err = "")
                /\ ret'.err # "" => models'[1].results = models[1].results
                /\ ret'.err = "" => models'[1].results = ret'.arg[1]
                /\ \A k \in DOMAIN models : k # 1 => models'[k] = models[k]
      ]_vars

\* a second run failed on validation after a first run had stored its results
C11_Witness ==
    /\ ret.op \in {"run_analysis", "run_analysis_from_file"}
    /\ ret.err = "ValueError"
    /\ ret.arg[1] = 2
    /\ models[1].results = 1

\* the ids the objects of a list carry, read from the catalog of the kind
CatalogIds(kind, objs) ==
    CASE kind = "materials" -> {materials[o].id : o \in objs}
      [] kind = "sections" -> {sections[o].id : o \in objs}
      [] kind = "nodal_supports" -> {supports[o].id : o \in objs}
      [] kind = "memberhinges" -> {hinges[o].id : o \in objs}
      [] kind = "shape_paths" -> {shapes[o].id : o \in objs}
\* the objects of a kind reachable from the member sets of the client's aggregate
CatalogReach(kind) ==
    CASE kind = "materials" -> ReachMaterials(1)
      [] kind = "sections" -> ReachSections(1)
      [] kind = "nodal_supports" -> ReachSupports(1)
      [] kind = "memberhinges" -> ReachHinges(1)
      [] kind = "shape_paths" -> ReachShapePaths(1)

C14_CombineConcatenates ==
    [][ (ret'.op = "combine_member_sets" /\ ret' # ret) =>
            LET args == ret'.arg[1]
            IN  /\ ret'.obj = Len(membersets) + 1
                /\ Len(membersets') = Len(membersets) + 1
                /\ membersets'[ret'.obj].members
                       = Flatten([k \in DOMAIN args |-> membersets[args[k]].members])
                /\ \A k \in DOMAIN membersets : membersets'[k] = membersets[k]
                /\ members' = members
                /\ all_members' = all_members
                /\ counter'.Member = counter.Member
                /\ nodes' = nodes
                /\ models' = models
      ]_vars

\* two different member sets were combined, the later one first
C14_Witness ==
    /\ ret.op = "combine_member_sets"
    /\ Len(ret.arg[1]) = 2
    /\ ret.arg[1][1] > ret.arg[1][2]
    /\ membersets[ret.obj].members
           = membersets[ret.arg[1][1]].members \o membersets[ret.arg[1][2]].members
    /\ membersets[ret.arg[1][1]].members # membersets[ret.arg[1][2]].members

\* ------------------------------------------------------------ properties of SpecSupport
SupportConditionCall ==
    ret.op \in {"SupportCondition", "SupportCondition.factory", "SupportCondition.from_dict"}

\* the combinations of kind and stiffness the contract allows
SupportAllowed(kind, stiffness) ==
    \/ kind = "SPRING" /\ stiffness # None /\ stiffness > 0
    \/ kind \in {"FIXED", "FREE"} /\ stiffness = None
    \/ kind \in {"POSITIVE_ONLY", "NEGATIVE_ONLY"} /\ (stiffness = None \/ stiffness > 0)

\* C15: a SupportCondition construction, by the constructor, a factory method
\* or from_dict, succeeds exactly when its kind and stiffness are an allowed
\* combination, and raises a validation error (ValueError) otherwise; a
\* document that names no known kind raises too.
C15_SupportConditionValidation ==
    SupportConditionCall =>
        /\ (ret.err = "") = (ret.arg[1] \in SupportConditionTypes
                                /\ SupportAllowed(ret.arg[1], ret.arg[2]))
        /\ ret.err \in {"", "ValueError"}

\* from_dict read a spelled-out unilateral kind with a negative stiffness and raised
C15_Witness ==
    /\ ret.op = "SupportCondition.from_dict"
    /\ ret.arg[1] = "POSITIVE_ONLY"
    /\ ret.arg[2] # None /\ ret.arg[2] < 0
    /\ ~ret.arg[3].raw.enum
    /\ ret.err = "ValueError"

====
